---- MODULE Spec2Model ----
(***************************************************************************)
(* RouteDash server: the order store and the order service                 *)
(* (createOrder, updateOrderStatusForRestaurant, updateOrderRoute, the     *)
(* listing reads) as request handlers that suspend at every await on the   *)
(* persistent store, so that handlers of different requests interleave.    *)
(***************************************************************************)
EXTENDS Integers, Sequences, FiniteSets, TLC

\* ---------------------------------------------------------------- bounds
MaxOrders == 2      \* orders the store may hold
MaxLines  == 2      \* lines of one createOrder request
MaxQty    == 2      \* quantity of one line

\* Request handlers that may be in flight at the same time.
Procs == {"p1", "p2"}

\* ------------------------------------------------------- enum OrderStatus
Statuses == {"PENDING", "PREPARING", "READY", "COMPLETED", "CANCELED"}

STATUS_TRANSITIONS ==
    [s \in Statuses |->
        CASE s = "PENDING"   -> {"PREPARING", "CANCELED"}
          [] s = "PREPARING" -> {"READY", "CANCELED"}
          [] s = "READY"     -> {"COMPLETED", "CANCELED"}
          [] s = "COMPLETED" -> {}
          [] s = "CANCELED"  -> {}]

\* Variant: the route stays editable while the order is ready.
ROUTE_UPDATEABLE_STATUSES_READY == {"PENDING", "PREPARING", "READY"}
\* Orders can only be re-routed if they are in PENDING or PREPARING status
ROUTE_UPDATEABLE_STATUSES == {"PENDING", "PREPARING"}

\* --------------------------------------------- rows the core only reads
\* Restaurant rows: r1, r2 are active, r3 is not; "r0" is the id of no row.
RestaurantIds == {"r1", "r2", "r3"}
RestaurantRows ==
    [r \in RestaurantIds |-> [id |-> r, isActive |-> (r # "r3")]]

\* Menu-item rows: the six items the seed gives every restaurant, here for
\* r1 (a1..a6) and r2 (b1..b6) in the order of their names; a6 has been
\* switched off by its merchant; "m0" is the id of no row.
SeedPrices == <<1099, 249, 1199, 399, 1299, 899>>
MenuItemIds == {"a1", "a2", "a3", "a4", "a5", "a6", "b1", "b2", "b3", "b4", "b5", "b6"}
MenuOfRestaurant ==
    [r \in RestaurantIds |->
        CASE r = "r1" -> <<"a1", "a2", "a3", "a4", "a5", "a6">>
          [] r = "r2" -> <<"b1", "b2", "b3", "b4", "b5", "b6">>
          [] OTHER    -> <<>>]
MenuItemRows ==
    [m \in MenuItemIds |->
        LET r == CHOOSE x \in RestaurantIds :
                    \E i \in 1..Len(MenuOfRestaurant[x]) : MenuOfRestaurant[x][i] = m
            k == CHOOSE i \in 1..Len(MenuOfRestaurant[r]) : MenuOfRestaurant[r][i] = m
        IN  [id |-> m, restaurantId |-> r, priceCents |-> SeedPrices[k],
             isAvailable |-> (m # "a6")]]

CustomerIds == {"c1", "c2"}

\* ------------------------------------------------------------- helpers
RECURSIVE SumSeq(_)
SumSeq(s) == IF s = <<>> THEN 0 ELSE Head(s) + SumSeq(Tail(s))

\* Math.round(x) for x = num / den >= 0: the nearest integer, ties upward.
MathRound(num, den) == (2 * num + den) \div (2 * den)

\* Variant: the quantity of a line is left out of the subtotal.
calculateSubtotalUnit(items) == SumSeq([i \in 1..Len(items) |-> items[i].priceCents])
\* const calculateSubtotal = (items) => items.reduce(...)
calculateSubtotal(items) ==
    SumSeq([i \in 1..Len(items) |-> items[i].priceCents * items[i].quantity])

\* TAX_RATE = 0.0825, as the fraction TaxRateNum / TaxRateDen
TaxRateNum == 825
TaxRateDen == 10000

\* Variant: the tax cut off instead of rounded.
TaxFloor(subtotalCents) == (subtotalCents * TaxRateNum) \div TaxRateDen
\* Math.round(subtotalCents * TAX_RATE)
TaxCents(subtotalCents) == MathRound(subtotalCents * TaxRateNum, TaxRateDen)

Max(a, b) == IF a >= b THEN a ELSE b

\* attachFinancials(order) without overrides: subtotal from the items, tax as
\* the rest of totalCents, never negative.
attachFinancials(order) ==
    LET subtotalCents == calculateSubtotal(order.items)
    IN  [order |-> order,
         subtotalCents |-> subtotalCents,
         taxCents |-> Max(order.totalCents - subtotalCents, 0)]

\* attachFinancials(order, {subtotalCents, taxCents})
attachFinancialsWith(order, subtotalCents, taxCents) ==
    [order |-> order, subtotalCents |-> subtotalCents, taxCents |-> taxCents]

\* ------------------------------------------------------------- state
VARIABLES
    orders,     \* the order table with its item rows: orders[id], id = 1..Len
    pc,         \* pc[p]: where handler p is suspended ("idle": no request)
    req,        \* req[p]: the arguments and locals of the request p handles
    response,   \* what the last step sent back to a caller (NoResponse: nothing)
    storage     \* the client's AsyncStorage value under SAVED_TRIPS_KEY

vars == <<orders, pc, req, response, storage>>

NoReq == [op |-> "none"]
\* A response: the operation and its arguments, the HTTP status, the message
\* of an error, the orders sent back, and whether the handler wrote the store.
NoResponse ==
    [op |-> "none", code |-> 0, message |-> "", data |-> <<>>, args |-> NoReq,
     wrote |-> FALSE]

HttpError(op, args, code, message) ==
    [op |-> op, code |-> code, message |-> message, data |-> <<>>, args |-> args,
     wrote |-> FALSE]
Ok(op, args, code, data) ==
    [op |-> op, code |-> code, message |-> "", data |-> data, args |-> args,
     wrote |-> FALSE]
Written(op, args, code, data) ==
    [op |-> op, code |-> code, message |-> "", data |-> data, args |-> args,
     wrote |-> TRUE]

OrderIds == 1..Len(orders)
\* ids a caller may name: every stored order and one that is not stored
RequestedOrderIds == 1..(MaxOrders + 1)

\* prisma.order.findUnique({ where: { id } }): the row, or none
Found(orderId) == orderId \in OrderIds

\* Handler p is at label l and the previous response has been sent.
At(p, l) == response.op = "none" /\ pc[p] = l

\* AsyncStorage.getItem resolves null: nothing is stored under the key.
NothingStored == [json |-> "null", value |-> <<>>]

Init ==
    /\ orders = <<>>
    /\ pc = [p \in Procs |-> "idle"]
    /\ req = [p \in Procs |-> NoReq]
    /\ response = NoResponse
    /\ storage = NothingStored

\* ------------------------------------------------ updateOrderStatusForRestaurant
\* Variant: a table that lets every order but a canceled one be canceled.
allowedTransitionsCancelAny(status) ==
    IF status = "CANCELED" THEN {} ELSE STATUS_TRANSITIONS[status] \cup {"CANCELED"}
\* STATUS_TRANSITIONS[order.status] ?? []
allowedTransitions(status) == STATUS_TRANSITIONS[status]

StatusArgs(restaurantId, orderId, nextStatus) ==
    [op |-> "updateOrderStatus", restaurantId |-> restaurantId,
     orderId |-> orderId, nextStatus |-> nextStatus]

\* Variants: the checks without the one of the owner, and without the one of
\* the unchanged status.
StatusDecisionNoOwner(restaurantId, orderId, nextStatus) ==
    IF ~Found(orderId) THEN "404"
    ELSE IF orders[orderId].status = nextStatus THEN "same"
    ELSE IF nextStatus \notin allowedTransitions(orders[orderId].status) THEN "400"
    ELSE "update"
StatusDecisionNoSame(restaurantId, orderId, nextStatus) ==
    IF ~Found(orderId) THEN "404"
    ELSE IF orders[orderId].restaurantId # restaurantId THEN "404"
    ELSE IF nextStatus \notin allowedTransitions(orders[orderId].status) THEN "400"
    ELSE "update"
\* What the status handler does with the row findUnique gave it, up to its
\* await of prisma.order.update: "404", "same", "400" or "update".
StatusDecision(restaurantId, orderId, nextStatus) ==
    IF ~Found(orderId) THEN "404"
    ELSE IF orders[orderId].restaurantId # restaurantId THEN "404"
    ELSE IF orders[orderId].status = nextStatus THEN "same"
    ELSE IF nextStatus \notin allowedTransitions(orders[orderId].status) THEN "400"
    ELSE "update"

\* The call, "await prisma.order.findUnique" and the checks on the row read.
UpdateStatusFind(p, restaurantId, orderId, nextStatus) ==
    /\ At(p, "idle")
    /\ LET args == StatusArgs(restaurantId, orderId, nextStatus)
           decision == StatusDecision(restaurantId, orderId, nextStatus)
       IN  CASE decision = "404" ->
                  /\ response' = HttpError("updateOrderStatus", args, 404, "Order not found")
                  /\ UNCHANGED <<orders, pc, req>>
             [] decision = "same" ->
                  /\ response' = Ok("updateOrderStatus", args, 200,
                                    <<attachFinancials(orders[orderId])>>)
                  /\ UNCHANGED <<orders, pc, req>>
             [] decision = "400" ->
                  /\ response' = HttpError("updateOrderStatus", args, 400,
                                           "Invalid status transition")
                  /\ UNCHANGED <<orders, pc, req>>
             [] decision = "update" ->
                  /\ pc' = [pc EXCEPT ![p] = "status_update"]
                  /\ req' = [req EXCEPT ![p] =
                                [args |-> args, seen |-> orders[orderId].status]]
                  /\ response' = NoResponse
                  /\ UNCHANGED orders
    /\ UNCHANGED storage

\* Variant: an update without the where clause.
StatusWriteAll(rows, orderId, nextStatus) ==
    [i \in 1..Len(rows) |-> [rows[i] EXCEPT !.status = nextStatus]]
\* prisma.order.update({ where: { id }, data: { status: nextStatus } })
StatusWrite(rows, orderId, nextStatus) ==
    [rows EXCEPT ![orderId].status = nextStatus]

\* "await prisma.order.update" and the return of the updated order.
UpdateStatusWrite(p) ==
    /\ At(p, "status_update")
    /\ LET args == req[p].args
       IN  /\ orders' = StatusWrite(orders, args.orderId, args.nextStatus)
           /\ response' = Written("updateOrderStatus", args, 200,
                                  <<attachFinancials(orders'[args.orderId])>>)
    /\ pc' = [pc EXCEPT ![p] = "idle"]
    /\ req' = [req EXCEPT ![p] = NoReq]
    /\ UNCHANGED storage

\* ---------------------------------------------------------- updateOrderRoute
RouteFields == {"routeOrigin", "routeDestination", "pickupEtaMin"}

RouteArgs(orderId, customerId, input) ==
    [op |-> "updateOrderRoute", orderId |-> orderId,
     customerId |-> customerId, input |-> input]

\* The fields of the input that are not undefined: updateData.
updateData(input) == [f \in DOMAIN input \cap RouteFields |-> input[f]]

\* Variant: the checks without the one of a positive pickupEtaMin.
RouteDecisionNoEta(orderId, customerId, input) ==
    IF ~Found(orderId) THEN "404"
    ELSE IF orders[orderId].customerId # customerId THEN "404"
    ELSE IF orders[orderId].status \notin ROUTE_UPDATEABLE_STATUSES THEN "400 status"
    ELSE IF DOMAIN updateData(input) = {} THEN "400 empty"
    ELSE "update"
\* "404", "400 status", "400 eta", "400 empty" or "update", in the order of
\* the handler's checks on the row findUnique gave it.
RouteDecision(orderId, customerId, input) ==
    IF ~Found(orderId) THEN "404"
    ELSE IF orders[orderId].customerId # customerId THEN "404"
    ELSE IF orders[orderId].status \notin ROUTE_UPDATEABLE_STATUSES THEN "400 status"
    ELSE IF "pickupEtaMin" \in DOMAIN input /\ input.pickupEtaMin <= 0 THEN "400 eta"
    ELSE IF DOMAIN updateData(input) = {} THEN "400 empty"
    ELSE "update"

\* The call, "await prisma.order.findUnique" and the checks before the update.
UpdateRouteFind(p, orderId, customerId, input) ==
    /\ At(p, "idle")
    /\ LET args == RouteArgs(orderId, customerId, input)
           decision == RouteDecision(orderId, customerId, input)
       IN  CASE decision = "404" ->
                  /\ response' = HttpError("updateOrderRoute", args, 404, "Order not found")
                  /\ UNCHANGED <<orders, pc, req>>
             [] decision = "400 status" ->
                  /\ response' = HttpError("updateOrderRoute", args, 400,
                                           orders[orderId].status)
                  /\ UNCHANGED <<orders, pc, req>>
             [] decision = "400 eta" ->
                  /\ response' = HttpError("updateOrderRoute", args, 400,
                                           "pickupEtaMin must be a positive number")
                  /\ UNCHANGED <<orders, pc, req>>
             [] decision = "400 empty" ->
                  /\ response' = HttpError("updateOrderRoute", args, 400,
                                           "At least one route field must be provided")
                  /\ UNCHANGED <<orders, pc, req>>
             [] decision = "update" ->
                  /\ pc' = [pc EXCEPT ![p] = "route_update"]
                  /\ req' = [req EXCEPT ![p] =
                                [args |-> args, seen |-> orders[orderId].status]]
                  /\ response' = NoResponse
                  /\ UNCHANGED orders
    /\ UNCHANGED storage

\* prisma.order.update({ where: { id }, data: updateData }): the row with the
\* fields of data replaced.
RouteWrite(rows, orderId, data) ==
    [rows EXCEPT ![orderId] =
        [f \in DOMAIN @ |-> IF f \in DOMAIN data THEN data[f] ELSE @[f]]]

\* "await prisma.order.update" and the return of the updated order.
UpdateRouteWrite(p) ==
    /\ At(p, "route_update")
    /\ LET args == req[p].args
       IN  /\ orders' = RouteWrite(orders, args.orderId, updateData(args.input))
           /\ response' = Written("updateOrderRoute", args, 200,
                                  <<attachFinancials(orders'[args.orderId])>>)
    /\ pc' = [pc EXCEPT ![p] = "idle"]
    /\ req' = [req EXCEPT ![p] = NoReq]
    /\ UNCHANGED storage

\* ------------------------------------------------------------- createOrder
\* orderPayload.parse(req.body): z.object keeps the declared keys only, so a
\* key such as a client-side priceCents is dropped from every line.
orderPayload(body) ==
    [restaurantId     |-> body.restaurantId,
     items            |-> [i \in 1..Len(body.items) |->
                              [menuItemId |-> body.items[i].menuItemId,
                               quantity   |-> body.items[i].quantity]],
     pickupEtaMin     |-> body.pickupEtaMin,
     routeOrigin      |-> body.routeOrigin,
     routeDestination |-> body.routeDestination]

CreateArgs(customerId, body) ==
    [op |-> "createOrder", customerId |-> customerId, body |-> body,
     input |-> orderPayload(body)]

\* prisma.restaurant.findUnique({ where: { id, isActive: true } })
ActiveRestaurant(restaurantId) ==
    restaurantId \in RestaurantIds /\ RestaurantRows[restaurantId].isActive

\* Variant: the query without the restaurantId filter.
findMenuItemsAnyRestaurant(ids, restaurantId) ==
    {m \in MenuItemIds : m \in ids /\ MenuItemRows[m].isAvailable}
\* prisma.menuItem.findMany({ where: { id: { in: ids }, restaurantId, isAvailable: true } })
findMenuItems(ids, restaurantId) ==
    {m \in MenuItemIds :
        /\ m \in ids
        /\ MenuItemRows[m].restaurantId = restaurantId
        /\ MenuItemRows[m].isAvailable}

RequestedIds(input) == {input.items[i].menuItemId : i \in 1..Len(input.items)}

\* menuItems.find((i) => i.id === item.menuItemId)!.priceCents
FoundPrice(menuItems, item) ==
    MenuItemRows[CHOOSE m \in menuItems : m = item.menuItemId].priceCents

\* input.items.reduce((total, item) => total + menuItem.priceCents * item.quantity, 0)
InputSubtotal(menuItems, input) ==
    SumSeq([i \in 1..Len(input.items) |->
               FoundPrice(menuItems, input.items[i]) * input.items[i].quantity])

\* Variant: the rows found compared with the distinct ids requested.
menuItemsLengthDiffersDistinct(menuItems, input) ==
    Cardinality(menuItems) # Cardinality(RequestedIds(input))
\* menuItems.length !== input.items.length
menuItemsLengthDiffers(menuItems, input) ==
    Cardinality(menuItems) # Len(input.items)

\* POST /orders: the body is parsed and createOrder is called.
PostOrders(p, customerId, body) ==
    /\ At(p, "idle")
    /\ Len(orders) + Cardinality({q \in Procs : pc[q] \in
            {"create_restaurant", "create_menu", "create_persist"}}) < MaxOrders
    /\ pc' = [pc EXCEPT ![p] = "create_restaurant"]
    /\ req' = [req EXCEPT ![p] = [args |-> CreateArgs(customerId, body)]]
    /\ response' = NoResponse
    /\ UNCHANGED orders
    /\ UNCHANGED storage

\* "await prisma.restaurant.findUnique" and the 404.
CreateOrderFindRestaurant(p) ==
    /\ At(p, "create_restaurant")
    /\ IF ~ActiveRestaurant(req[p].args.input.restaurantId)
       THEN /\ response' = HttpError("createOrder", req[p].args, 404, "Restaurant not found")
            /\ pc' = [pc EXCEPT ![p] = "idle"]
            /\ req' = [req EXCEPT ![p] = NoReq]
       ELSE /\ response' = NoResponse
            /\ pc' = [pc EXCEPT ![p] = "create_menu"]
            /\ UNCHANGED req
    /\ UNCHANGED orders
    /\ UNCHANGED storage

\* "await prisma.menuItem.findMany", the length check and the totals.
CreateOrderFindMenuItems(p) ==
    /\ At(p, "create_menu")
    /\ LET input == req[p].args.input
           menuItems == findMenuItems(RequestedIds(input), input.restaurantId)
       IN  IF menuItemsLengthDiffers(menuItems, input)
           THEN /\ response' = HttpError("createOrder", req[p].args, 400,
                                         "Some menu items are unavailable")
                /\ pc' = [pc EXCEPT ![p] = "idle"]
                /\ req' = [req EXCEPT ![p] = NoReq]
           ELSE LET subtotalCents == InputSubtotal(menuItems, input)
                    taxCents == TaxCents(subtotalCents)
                IN  /\ response' = NoResponse
                    /\ pc' = [pc EXCEPT ![p] = "create_persist"]
                    /\ req' = [req EXCEPT ![p] =
                          [args |-> req[p].args,
                           menuItems |-> menuItems,
                           subtotalCents |-> subtotalCents,
                           taxCents |-> taxCents,
                           totalCents |-> subtotalCents + taxCents,
                           txOrder |-> <<>>,
                           txItems |-> <<>>]]
    /\ UNCHANGED orders
    /\ UNCHANGED storage

\* prisma.order.create({ data: { ..., items: { create: [...] } } }) is one
\* nested write: the order row and its item rows are written in one
\* transaction of the store and become visible together at its commit.
\* The order row, written inside the transaction.
CreateOrderInsertOrder(p) ==
    /\ At(p, "create_persist")
    /\ req[p].txOrder = <<>>
    /\ LET input == req[p].args.input
       IN  req' = [req EXCEPT ![p].txOrder =
                    <<[customerId       |-> req[p].args.customerId,
                       restaurantId     |-> input.restaurantId,
                       status           |-> "PENDING",
                       pickupEtaMin     |-> input.pickupEtaMin,
                       routeOrigin      |-> input.routeOrigin,
                       routeDestination |-> input.routeDestination,
                       totalCents       |-> req[p].totalCents]>>]
    /\ response' = NoResponse
    /\ UNCHANGED <<orders, pc>>
    /\ UNCHANGED storage

\* The next item row, written inside the transaction.
CreateOrderInsertItem(p) ==
    /\ At(p, "create_persist")
    /\ req[p].txOrder # <<>>
    /\ Len(req[p].txItems) < Len(req[p].args.input.items)
    /\ LET item == req[p].args.input.items[Len(req[p].txItems) + 1]
       IN  req' = [req EXCEPT ![p].txItems = Append(@,
                      [menuItemId |-> item.menuItemId,
                       quantity   |-> item.quantity,
                       priceCents |-> FoundPrice(req[p].menuItems, item)])]
    /\ response' = NoResponse
    /\ UNCHANGED <<orders, pc>>
    /\ UNCHANGED storage

\* The rows of the transaction as one order with its items; id and createdAt
\* are given by the store (createdAt counts the inserts).
TxOrder(p, id) ==
    [id               |-> id,
     createdAt        |-> id,
     customerId       |-> req[p].txOrder[1].customerId,
     restaurantId     |-> req[p].txOrder[1].restaurantId,
     status           |-> req[p].txOrder[1].status,
     pickupEtaMin     |-> req[p].txOrder[1].pickupEtaMin,
     routeOrigin      |-> req[p].txOrder[1].routeOrigin,
     routeDestination |-> req[p].txOrder[1].routeDestination,
     totalCents       |-> req[p].txOrder[1].totalCents,
     items            |-> req[p].txItems]

\* The commit of the nested write and the return of the created order.
CreateOrderCommit(p) ==
    /\ At(p, "create_persist")
    /\ req[p].txOrder # <<>>
    /\ Len(req[p].txItems) = Len(req[p].args.input.items)
    /\ orders' = Append(orders, TxOrder(p, Len(orders) + 1))
    /\ response' = Written("createOrder", req[p].args, 201,
                           <<attachFinancialsWith(orders'[Len(orders')],
                                                  req[p].subtotalCents, req[p].taxCents)>>)
    /\ pc' = [pc EXCEPT ![p] = "idle"]
    /\ req' = [req EXCEPT ![p] = NoReq]
    /\ UNCHANGED storage

\* Variant: the rows written before the failure stay.
AfterFailureKeepRows(p) ==
    IF req[p].txOrder = <<>> THEN orders ELSE Append(orders, TxOrder(p, Len(orders) + 1))
\* What a failed nested write leaves in the store: the transaction is rolled
\* back, no row of it stays.
AfterFailure(p) == orders

\* The store fails while the nested write is under way: the error propagates.
CreateOrderStoreFailure(p) ==
    /\ At(p, "create_persist")
    /\ orders' = AfterFailure(p)
    /\ response' = HttpError("createOrder", req[p].args, 500, "Internal Server Error")
    /\ pc' = [pc EXCEPT ![p] = "idle"]
    /\ req' = [req EXCEPT ![p] = NoReq]
    /\ UNCHANGED storage

\* ------------------------------------------------------------- the reads
\* What a query of another request sees of the store: committed rows only.
VisibleOrders == orders

StatusRank(status) ==
    CASE status = "PENDING" -> 0 [] status = "PREPARING" -> 1 [] status = "READY" -> 2
      [] status = "COMPLETED" -> 3 [] status = "CANCELED" -> 4

\* listOrdersForUser: where customerId, orderBy createdAt desc
ListOrdersForUser(p, customerId) ==
    /\ At(p, "idle")
    /\ LET rows == SortSeq(SelectSeq(VisibleOrders, LAMBDA o : o.customerId = customerId),
                           LAMBDA a, b : a.createdAt > b.createdAt)
       IN  response' = Ok("listOrdersForUser", [op |-> "listOrdersForUser", customerId |-> customerId],
                          200, [i \in 1..Len(rows) |-> attachFinancials(rows[i])])
    /\ UNCHANGED <<orders, pc, req>>
    /\ UNCHANGED storage

\* listOrdersForRestaurant: where restaurantId, orderBy status asc, createdAt asc
ListOrdersForRestaurant(p, restaurantId) ==
    /\ At(p, "idle")
    /\ LET rows == SortSeq(SelectSeq(VisibleOrders, LAMBDA o : o.restaurantId = restaurantId),
                           LAMBDA a, b : \/ StatusRank(a.status) < StatusRank(b.status)
                                         \/ /\ a.status = b.status
                                            /\ a.createdAt < b.createdAt)
       IN  response' = Ok("listOrdersForRestaurant",
                          [op |-> "listOrdersForRestaurant", restaurantId |-> restaurantId],
                          200, [i \in 1..Len(rows) |-> attachFinancials(rows[i])])
    /\ UNCHANGED <<orders, pc, req>>
    /\ UNCHANGED storage

\* getOrderForCustomer: findUnique, 404 unless the customer owns the order
GetOrderForCustomer(p, orderId, customerId) ==
    /\ At(p, "idle")
    /\ LET args == [op |-> "getOrderForCustomer", orderId |-> orderId, customerId |-> customerId]
       IN  IF orderId \notin 1..Len(VisibleOrders) \/ VisibleOrders[orderId].customerId # customerId
           THEN response' = HttpError("getOrderForCustomer", args, 404, "Order not found")
           ELSE response' = Ok("getOrderForCustomer", args, 200,
                               <<attachFinancials(VisibleOrders[orderId])>>)
    /\ UNCHANGED <<orders, pc, req>>
    /\ UNCHANGED storage

\* ------------------------------------------------------------- requests
\* The response of a handler is sent before the next step is taken.
Deliver ==
    /\ response.op # "none"
    /\ response' = NoResponse
    /\ UNCHANGED <<orders, pc, req>>
    /\ UNCHANGED storage

\* Restaurant ids a caller may name: stored ones and one that is not stored.
RequestedRestaurantIds == RestaurantIds \cup {"r0"}
\* Menu-item ids a caller names: two available items of r1, the one switched
\* off, one of another restaurant and one that is not stored.
RequestedMenuItemIds == {"a1", "a2", "a6", "b1", "m0"}

\* Route inputs of the lifecycle: a new pickupEtaMin, one that is not
\* positive, and no field at all (<<>> is the record without fields).
LifecycleRouteInputs == {[pickupEtaMin |-> 20], [pickupEtaMin |-> 0], <<>>}

\* The bodies the clients of the lifecycle send to POST /orders: the order
\* of the seed's first customer, the same for an inactive restaurant, and one
\* that names an item that is switched off.
LifecycleBody(restaurantId, secondItem) ==
    [restaurantId |-> restaurantId,
     items |-> <<[menuItemId |-> "a1", quantity |-> 1],
                 [menuItemId |-> secondItem, quantity |-> 2]>>,
     pickupEtaMin |-> 15, routeOrigin |-> "Raleigh, NC", routeDestination |-> "Durham, NC"]
LifecycleBodies ==
    {LifecycleBody("r1", "a2"), LifecycleBody("r3", "a2"), LifecycleBody("r1", "a6")}

CreateSteps(p) ==
    \/ CreateOrderFindRestaurant(p)
    \/ CreateOrderFindMenuItems(p)
    \/ CreateOrderInsertOrder(p)
    \/ CreateOrderInsertItem(p)
    \/ CreateOrderCommit(p)
    \/ CreateOrderStoreFailure(p)

Next ==
    \/ Deliver
    \/ \E p \in Procs :
         \/ \E body \in LifecycleBodies : PostOrders(p, "c1", body)
         \/ CreateSteps(p)
         \/ \E restaurantId \in {"r1", "r2"}, orderId \in RequestedOrderIds,
               nextStatus \in Statuses :
              UpdateStatusFind(p, restaurantId, orderId, nextStatus)
         \/ UpdateStatusWrite(p)
         \/ \E orderId \in RequestedOrderIds, customerId \in CustomerIds,
               input \in LifecycleRouteInputs :
              UpdateRouteFind(p, orderId, customerId, input)
         \/ UpdateRouteWrite(p)

Spec == Init /\ [][Next]_vars

\* ------------------------------------------------- the creation on its own
\* The price a client may put on a line of its own accord.
ClientPriceCents == 1

RequestLines == [menuItemId : RequestedMenuItemIds, quantity : 1..MaxQty]
RequestLineSeqs == UNION {[1..n -> RequestLines] : n \in 1..MaxLines}

WithClientPrice(lines) ==
    [i \in 1..Len(lines) |->
        [menuItemId |-> lines[i].menuItemId, quantity |-> lines[i].quantity,
         priceCents |-> ClientPriceCents]]

\* Bodies that pass the shape checks of orderPayload, with and without a
\* client-side price on the lines.
CreateBodies ==
    {[restaurantId |-> r, items |-> lines, pickupEtaMin |-> 15,
      routeOrigin |-> "Raleigh, NC", routeDestination |-> "Durham, NC"] :
        r \in RequestedRestaurantIds,
        lines \in RequestLineSeqs \cup {WithClientPrice(l) : l \in RequestLineSeqs}}

\* Some line of the request names the item of an earlier line again.
HasDuplicate(lines) ==
    \E i, j \in 1..Len(lines) : i < j /\ lines[i].menuItemId = lines[j].menuItemId

\* Bodies of one line more, some item being named twice.
DuplicateBodies ==
    {[restaurantId |-> r, items |-> lines, pickupEtaMin |-> 15,
      routeOrigin |-> "Raleigh, NC", routeDestination |-> "Durham, NC"] :
        r \in RequestedRestaurantIds,
        lines \in {l \in [1..(MaxLines + 1) ->
                              [menuItemId : RequestedMenuItemIds, quantity : {1}]] :
                      HasDuplicate(l)}}

\* One POST /orders has arrived at p1 of an empty store; p2 reads meanwhile.
CreateInit ==
    /\ orders = <<>>
    /\ \E customerId \in CustomerIds, body \in CreateBodies \cup DuplicateBodies :
          req = [p \in Procs |->
                    IF p = "p1" THEN [args |-> CreateArgs(customerId, body)] ELSE NoReq]
    /\ pc = [p \in Procs |-> IF p = "p1" THEN "create_restaurant" ELSE "idle"]
    /\ response = NoResponse
    /\ storage = NothingStored

CreateNext ==
    \/ Deliver
    \/ \E p \in Procs :
         \/ CreateSteps(p)
         \/ \E customerId \in CustomerIds : ListOrdersForUser(p, customerId)
         \/ \E restaurantId \in {"r1", "r2"} : ListOrdersForRestaurant(p, restaurantId)
         \/ \E orderId \in 1..2, customerId \in CustomerIds :
              GetOrderForCustomer(p, orderId, customerId)

CreateSpec == CreateInit /\ [][CreateNext]_vars

\* ------------------------------------------------------ prisma/seed.ts main
\* restaurantItems.slice(from, to).map((item, index) => ({ ..., quantity, priceCents }))
SeedItems(restaurantId, from, to, secondQuantity) ==
    [i \in 1..(to - from) |->
        LET m == MenuOfRestaurant[restaurantId][from + i]
        IN  [menuItemId |-> m,
             quantity   |-> IF i = 1 THEN 1 ELSE secondQuantity,
             priceCents |-> MenuItemRows[m].priceCents]]

\* items.reduce((sum, item) => sum + item.priceCents * item.quantity, 0)
SeedOrderTotal(items) == calculateSubtotal(items)

SeedOrder(id, restaurantId, status, pickupEtaMin, routeOrigin, routeDestination, items) ==
    [id               |-> id,
     createdAt        |-> id,
     customerId       |-> "c1",
     restaurantId     |-> restaurantId,
     status           |-> status,
     pickupEtaMin     |-> pickupEtaMin,
     routeOrigin      |-> routeOrigin,
     routeDestination |-> routeDestination,
     totalCents       |-> SeedOrderTotal(items),
     items            |-> items]

\* The pending, the processing and the ready order of the seed.
SeedOrders ==
    <<SeedOrder(1, "r1", "PENDING", 15, "Raleigh, NC", "Durham, NC",
                SeedItems("r1", 0, 2, 2)),
      SeedOrder(2, "r1", "PREPARING", 10, "Cary, NC", "Durham, NC",
                SeedItems("r1", 2, 4, 1)),
      SeedOrder(3, "r2", "READY", 5, "Chapel Hill, NC", "Raleigh, NC",
                SeedItems("r2", 0, 2, 1))>>

\* "await prisma.order.create" of the seed, one order after the other, into
\* the store the seed has emptied.
SeedCreateOrder ==
    /\ response.op = "none"
    /\ Len(orders) < Len(SeedOrders)
    /\ orders' = Append(orders, SeedOrders[Len(orders) + 1])
    /\ UNCHANGED <<pc, req, response>>
    /\ UNCHANGED storage

\* The seed runs against the emptied store while p1 serves the merchants and
\* the seeded customer.
SeedNext ==
    \/ Deliver
    \/ SeedCreateOrder
    \/ \E p \in {"p1"} :
         \/ \E restaurantId \in {"r1", "r2"}, orderId \in 1..Len(SeedOrders),
               nextStatus \in Statuses :
              UpdateStatusFind(p, restaurantId, orderId, nextStatus)
         \/ UpdateStatusWrite(p)
         \/ \E orderId \in 1..Len(SeedOrders), input \in LifecycleRouteInputs :
              UpdateRouteFind(p, orderId, "c1", input)
         \/ UpdateRouteWrite(p)

SeedSpec == Init /\ [][SeedNext]_vars

\* ------------------------------------------- PATCH /orders/:orderId/route
\* updateRoutePayload.parse(req.body) succeeds: z.object of three required
\* fields, the strings not empty and pickupEtaMin a positive integer.
updateRoutePayloadParses(body) ==
    /\ RouteFields \subseteq DOMAIN body
    /\ body.routeOrigin # ""
    /\ body.routeDestination # ""
    /\ body.pickupEtaMin > 0

\* The parsed payload: the declared keys of the body.
updateRoutePayload(body) == [f \in RouteFields |-> body[f]]

\* What the error middleware answers when parse throws.
ValidationError(op, args) == HttpError(op, args, 400, "Validation failed")

\* The route handler: parse of the body, then updateOrderRoute.
PatchOrderRoute(p, orderId, customerId, body) ==
    IF updateRoutePayloadParses(body)
    THEN UpdateRouteFind(p, orderId, customerId, updateRoutePayload(body))
    ELSE /\ At(p, "idle")
         /\ response' = ValidationError("patchOrderRoute",
                            [op |-> "patchOrderRoute", orderId |-> orderId,
                             customerId |-> customerId, body |-> body])
         /\ UNCHANGED <<orders, pc, req, storage>>

\* The fields of two inputs together (<<>> is the input without fields).
WithFields(a, b) ==
    [f \in DOMAIN a \cup DOMAIN b |-> IF f \in DOMAIN a THEN a[f] ELSE b[f]]

\* Route inputs: each field left out or given; pickupEtaMin also given as 0.
RouteInputs ==
    {WithFields(o, WithFields(d, e)) :
        o \in {<<>>, [routeOrigin |-> "Cary, NC"]},
        d \in {<<>>, [routeDestination |-> "Apex, NC"]},
        e \in {<<>>, [pickupEtaMin |-> 20], [pickupEtaMin |-> 0]}}

\* Order ids the route requests name: the first order and one that is not
\* stored.
RouteRequestedOrderIds == {1, MaxOrders + 1}

\* p1 serves the customer's POST /orders and the merchant's status changes,
\* p2 the route updates, called directly and through the route handler.
RouteNext ==
    \/ Deliver
    \/ PostOrders("p1", "c1", LifecycleBody("r1", "a2"))
    \/ CreateSteps("p1")
    \/ \E orderId \in OrderIds, nextStatus \in Statuses :
         UpdateStatusFind("p1", "r1", orderId, nextStatus)
    \/ UpdateStatusWrite("p1")
    \/ \E orderId \in RouteRequestedOrderIds, customerId \in CustomerIds,
          input \in RouteInputs :
         \/ UpdateRouteFind("p2", orderId, customerId, input)
         \/ PatchOrderRoute("p2", orderId, customerId, input)
    \/ UpdateRouteWrite("p2")

RouteSpec == Init /\ [][RouteNext]_vars

\* ============================================================ analytics
\* Time is counted in hours from a Sunday 00:00 UTC; createdAt is such a
\* count. The server's time zone is a whole number of hours from UTC.
\* date.toISOString().split("T")[0]: the UTC calendar day. The keys are
\* compared as the days they name (ISO dates sort as their days do).
toISODate(t) == t \div 24
\* date.getHours(): the hour of the day in the server's time zone
getHours(t, tz) == (t + tz) % 24
\* date.getDay(): the day of the week in the server's time zone, 0 = Sunday
getDay(t, tz) == ((t + tz) \div 24) % 7

Min(a, b) == IF a < b THEN a ELSE b

\* Array.prototype.sort with (a, b) => b[f] - a[f]: descending by f and
\* stable, so an element comes after those with a greater f and after those
\* with the same f that stood before it.
SortDescBy(seq, f) ==
    LET arr == seq \o <<>>
        Before(i) == {j \in 1..Len(arr) :
                        arr[j][f] > arr[i][f] \/ (arr[j][f] = arr[i][f] /\ j < i)}
        place == [i \in 1..Len(arr) |-> Cardinality(Before(i)) + 1] \o <<>>
    IN  [n \in 1..Len(arr) |-> arr[CHOOSE i \in 1..Len(arr) : place[i] = n]] \o <<>>

\* Array.prototype.sort with (a, b) => a[f].localeCompare(b[f]): ascending
\* by f and stable.
SortAscBy(seq, f) ==
    LET arr == seq \o <<>>
        Before(i) == {j \in 1..Len(arr) :
                        arr[j][f] < arr[i][f] \/ (arr[j][f] = arr[i][f] /\ j < i)}
        place == [i \in 1..Len(arr) |-> Cardinality(Before(i)) + 1] \o <<>>
    IN  [n \in 1..Len(arr) |-> arr[CHOOSE i \in 1..Len(arr) : place[i] = n]] \o <<>>

\* The keys of a Map in its iteration order: each key where it was first set.
MapKeys(keys) ==
    LET arr == keys \o <<>>
        firsts == {i \in 1..Len(arr) : \A j \in 1..(i - 1) : arr[j] # arr[i]}
    IN  [n \in 1..Cardinality(firsts) |->
            arr[CHOOSE i \in firsts : Cardinality({j \in firsts : j <= i}) = n]] \o <<>>

\* The orders in which a findMany without orderBy may return the order rows.
RowOrders == {f \in [OrderIds -> OrderIds] : \A i, j \in OrderIds : f[i] = f[j] => i = j}

\* Variant: a query without the status filter.
findManyOrdersAnyStatus(restaurantId, rowOrder) ==
    SelectSeq([i \in OrderIds |-> orders[rowOrder[i]]],
              LAMBDA o : o.restaurantId = restaurantId)
\* prisma.order.findMany({ where: { restaurantId, status: { not: "CANCELED" } } })
findManyOrders(restaurantId, rowOrder) ==
    SelectSeq([i \in OrderIds |-> orders[rowOrder[i]]],
              LAMBDA o : o.restaurantId = restaurantId /\ o.status # "CANCELED")

\* The item rows of a sequence of orders, each with the id of its order.
RECURSIVE OrderItemsOf(_)
OrderItemsOf(rows) ==
    IF rows = <<>> THEN <<>>
    ELSE [i \in 1..Len(Head(rows).items) |->
             [menuItemId |-> Head(rows).items[i].menuItemId,
              quantity   |-> Head(rows).items[i].quantity,
              priceCents |-> Head(rows).items[i].priceCents,
              orderId    |-> Head(rows).id]] \o OrderItemsOf(Tail(rows))

\* prisma.orderItem.findMany({ where: { order: { restaurantId, status: { not: "CANCELED" } } } })
findManyOrderItems(restaurantId, rowOrder) ==
    OrderItemsOf(findManyOrders(restaurantId, rowOrder))

\* Variant: the price of the line, whatever its quantity.
lineRevenueCentsUnit(orderItem) == orderItem.priceCents
\* orderItem.priceCents * orderItem.quantity
lineRevenueCents(orderItem) == orderItem.priceCents * orderItem.quantity

\* The entry of itemMap for a menu item after the loop over orderItems,
\* as the PopularItem made of it.
PopularItemOf(orderItems, menuItemId) ==
    LET lines == SelectSeq(orderItems, LAMBDA l : l.menuItemId = menuItemId)
    IN  [menuItemId    |-> menuItemId,
         totalQuantity |-> SumSeq([i \in 1..Len(lines) |-> lines[i].quantity]),
         orderCount    |-> Cardinality({lines[i].orderId : i \in 1..Len(lines)}),
         revenueCents  |-> SumSeq([i \in 1..Len(lines) |-> lineRevenueCents(lines[i])])]

\* Variant: the items ranked by their revenue.
sortPopularItemsByRevenue(items) == SortDescBy(items, "revenueCents")
\* .sort((a, b) => b.totalQuantity - a.totalQuantity)
sortPopularItems(items) == SortDescBy(items, "totalQuantity")

\* limit: number = 10
DefaultPopularItemsLimit == 10

\* getPopularItems, from the rows of its query on.
popularItems(orderItems, limit) ==
    LET keys == MapKeys([i \in 1..Len(orderItems) |-> orderItems[i].menuItemId])
        sorted == sortPopularItems([i \in 1..Len(keys) |-> PopularItemOf(orderItems, keys[i])])
    IN  SubSeq(sorted, 1, Min(limit, Len(sorted)))

\* Variant: a map that holds the hours in which an order was placed.
hourMapKeysPlaced(rows, tz) == MapKeys([i \in 1..Len(rows) |-> getHours(rows[i].createdAt, tz)])
\* for (let hour = 0; hour < 24; hour++) hourMap.set(hour, ...)
hourMapKeys(rows, tz) == [i \in 1..24 |-> i - 1]

\* getPeakTimes, from the rows of its query on.
peakTimes(rows, tz) ==
    LET keys == hourMapKeys(rows, tz)
        InHour(h) == SelectSeq(rows, LAMBDA o : getHours(o.createdAt, tz) = h)
    IN  SortDescBy([i \in 1..Len(keys) |->
                       [hour         |-> keys[i],
                        orderCount   |-> Len(InHour(keys[i])),
                        revenueCents |-> SumSeq([j \in 1..Len(InHour(keys[i])) |->
                                                   InHour(keys[i])[j].totalCents])]],
                   "orderCount")

\* ------------------------------- getRestaurantAnalytics (from the orders)
\* weekStart.setDate(date.getDate() - date.getDay()): the same time of day
\* getDay() days earlier; its toISOString() date is the key of the week.
weekKey(t, tz) == toISODate(t - 24 * getDay(t, tz))

\* .slice(0, n): the first n elements
sliceFirst(seq, n) == SubSeq(seq, 1, Min(n, Len(seq)))

\* The keys of hourCounts: the hours in which an order was placed.
hourCountsKeys(rows, tz) == MapKeys([i \in 1..Len(rows) |-> getHours(rows[i].createdAt, tz)])

\* Variant: the elements from the start of the list.
sliceLastFromStart(seq, n) == SubSeq(seq, 1, Min(n, Len(seq)))
\* .slice(-n): the last n elements
sliceLast(seq, n) == SubSeq(seq, Max(1, Len(seq) - n + 1), Len(seq))

\* The TimeBasedStats of the orders, grouped by their keys (rowKeys[i] is
\* the key of rows[i]), in the order of the keys.
timeBasedStats(rows, rowKeys) ==
    LET keys == MapKeys(rowKeys)
        Of(k) == [j \in 1..Len(rows) |-> IF rowKeys[j] = k THEN 1 ELSE 0]
        Count(k) == SumSeq(Of(k))
        Revenue(k) == SumSeq([j \in 1..Len(rows) |-> Of(k)[j] * rows[j].totalCents])
    IN  SortAscBy([i \in 1..Len(keys) |->
                      [date                   |-> keys[i],
                       orderCount             |-> Count(keys[i]),
                       totalRevenueCents      |-> Revenue(keys[i]),
                       averageOrderValueCents |-> MathRound(Revenue(keys[i]), Count(keys[i]))]],
                  "date")

\* .slice(-30), .slice(-12) and .slice(0, 5)
LastDays == 30
LastWeeks == 12
TopHours == 5

\* The entry of itemMap for a menu item, as the PopularItem made of it.
PopularItemOfOrders(orderItems, menuItemId) ==
    LET lines == SelectSeq(orderItems, LAMBDA l : l.menuItemId = menuItemId)
    IN  [menuItemId        |-> menuItemId,
         totalQuantity     |-> SumSeq([i \in 1..Len(lines) |-> lines[i].quantity]),
         totalRevenueCents |-> SumSeq([i \in 1..Len(lines) |-> lineRevenueCents(lines[i])])]

\* getRestaurantAnalytics, from the rows of its query on.
restaurantAnalytics(rows, tz) ==
    LET totalOrders == Len(rows)
        totalRevenueCents == SumSeq([i \in 1..Len(rows) |-> rows[i].totalCents])
        dayKeys == [i \in 1..Len(rows) |-> toISODate(rows[i].createdAt)]
        weekKeys == [i \in 1..Len(rows) |-> weekKey(rows[i].createdAt, tz)]
        hours == hourCountsKeys(rows, tz)
        orderItems == OrderItemsOf(rows)
        itemKeys == MapKeys([i \in 1..Len(orderItems) |-> orderItems[i].menuItemId])
    IN  [popularItems |->
             SortDescBy([i \in 1..Len(itemKeys) |->
                            PopularItemOfOrders(orderItems, itemKeys[i])], "totalQuantity"),
         averageOrderCostCents |->
             IF totalOrders > 0 THEN MathRound(totalRevenueCents, totalOrders) ELSE 0,
         totalOrders |-> totalOrders,
         totalRevenueCents |-> totalRevenueCents,
         ordersByDay |-> sliceLast(timeBasedStats(rows, dayKeys), LastDays),
         ordersByWeek |-> sliceLast(timeBasedStats(rows, weekKeys), LastWeeks),
         peakOrderingHours |->
             sliceFirst(SortDescBy([i \in 1..Len(hours) |->
                            [hour |-> hours[i],
                             orderCount |-> Len(SelectSeq(rows, LAMBDA o :
                                                getHours(o.createdAt, tz) = hours[i]))]],
                                   "orderCount"), TopHours)]

\* ----------------------------------------------------- the three queries
\* The time zones the server may run in: UTC and that of the restaurants
\* of the seed (Durham NC, five hours west of UTC).
ServerTimeZones == {0, -5}

GetPopularItems(p, restaurantId, limit, rowOrder) ==
    /\ At(p, "idle")
    /\ response' = Ok("getPopularItems",
                      [op |-> "getPopularItems", restaurantId |-> restaurantId, limit |-> limit],
                      200, <<popularItems(findManyOrderItems(restaurantId, rowOrder), limit)>>)
    /\ UNCHANGED <<orders, pc, req>>
    /\ UNCHANGED storage

GetPeakTimes(p, restaurantId, tz, rowOrder) ==
    /\ At(p, "idle")
    /\ response' = Ok("getPeakTimes",
                      [op |-> "getPeakTimes", restaurantId |-> restaurantId, tz |-> tz],
                      200, <<peakTimes(findManyOrders(restaurantId, rowOrder), tz)>>)
    /\ UNCHANGED <<orders, pc, req>>
    /\ UNCHANGED storage

GetRestaurantAnalytics(p, restaurantId, tz, rowOrder) ==
    /\ At(p, "idle")
    /\ response' = Ok("getRestaurantAnalytics",
                      [op |-> "getRestaurantAnalytics", restaurantId |-> restaurantId, tz |-> tz],
                      200, <<restaurantAnalytics(findManyOrders(restaurantId, rowOrder), tz)>>)
    /\ UNCHANGED <<orders, pc, req>>
    /\ UNCHANGED storage

\* --------------------------------------------- the demo analytics script
\* prisma.order.create({ data: { ...orderFields, items: { create: items } } })
\* with the createdAt, the status and the items the script has drawn, the
\* total being the subtotal and its tax.
DemoOrder(id, restaurantId, status, createdAt, lines) ==
    LET items == [i \in 1..Len(lines) |->
                     [menuItemId |-> lines[i].menuItemId,
                      quantity   |-> lines[i].quantity,
                      priceCents |-> MenuItemRows[lines[i].menuItemId].priceCents]]
        subtotal == calculateSubtotal(items)
    IN  [id               |-> id,
         createdAt        |-> createdAt,
         customerId       |-> "c1",
         restaurantId     |-> restaurantId,
         status           |-> status,
         pickupEtaMin     |-> 15,
         routeOrigin      |-> "Raleigh, NC",
         routeDestination |-> "Durham, NC",
         totalCents       |-> subtotal + MathRound(subtotal * TaxRateNum, TaxRateDen),
         items            |-> items]

DemoCreateOrder(restaurantId, status, createdAt, lines) ==
    /\ response.op = "none"
    /\ Len(orders) < MaxOrders
    /\ orders' = Append(orders, DemoOrder(Len(orders) + 1, restaurantId, status, createdAt, lines))
    /\ UNCHANGED <<pc, req, response>>
    /\ UNCHANGED storage

\* The moments the demo orders are dated: a Sunday at 01:00 and at 12:00
\* UTC, the Wednesday after at 12:00, the Monday of the next week at 18:00.
DemoTimes == {169, 180, 252, 378}

\* The lines the script draws for an order of a restaurant.
DemoLines(restaurantId) ==
    IF restaurantId = "r1"
    THEN {<<[menuItemId |-> "a1", quantity |-> 1], [menuItemId |-> "a2", quantity |-> 2]>>,
          <<[menuItemId |-> "a2", quantity |-> 1]>>}
    ELSE {<<[menuItemId |-> "b1", quantity |-> 1]>>}

PopularItemsLimits == {1, 2, DefaultPopularItemsLimit}

\* The script fills the store, p1 serves the cancellations of r1's merchant,
\* p2 the analytics.
AnalyticsNext ==
    \/ Deliver
    \/ \E restaurantId \in {"r1", "r2"}, status \in {"COMPLETED", "PENDING"},
          createdAt \in DemoTimes :
         \E lines \in DemoLines(restaurantId) :
            DemoCreateOrder(restaurantId, status, createdAt, lines)
    \/ \E orderId \in OrderIds : UpdateStatusFind("p1", "r1", orderId, "CANCELED")
    \/ UpdateStatusWrite("p1")
    \/ \E restaurantId \in {"r1", "r2"}, rowOrder \in RowOrders, limit \in PopularItemsLimits :
         GetPopularItems("p2", restaurantId, limit, rowOrder)
    \/ \E restaurantId \in {"r1", "r2"}, rowOrder \in RowOrders, tz \in ServerTimeZones :
         GetPeakTimes("p2", restaurantId, tz, rowOrder)
    \/ \E restaurantId \in {"r1", "r2"}, rowOrder \in RowOrders, tz \in ServerTimeZones :
         GetRestaurantAnalytics("p2", restaurantId, tz, rowOrder)

AnalyticsSpec == Init /\ [][AnalyticsNext]_vars

\* ------------------------------------------------ long order histories
\* The most orders of a history.
MaxHistory == 32

\* The store after the script has dated n orders of r1 one stride apart,
\* the first on a Sunday at 01:00 UTC, with one and two lines in turn.
DemoHistory(n, stride, status) ==
    [i \in 1..n |->
        DemoOrder(i, "r1", status, 169 + (i - 1) * stride,
                  IF i % 2 = 1
                  THEN <<[menuItemId |-> "a1", quantity |-> 1],
                         [menuItemId |-> "a2", quantity |-> 2]>>
                  ELSE <<[menuItemId |-> "a2", quantity |-> 1]>>)]

\* Half a day, a day and a week, in hours.
DemoStrides == {12, 24, 168}

RollupInit ==
    /\ \E n \in 0..MaxHistory, stride \in DemoStrides, status \in {"COMPLETED", "PENDING"} :
          orders = DemoHistory(n, stride, status)
    /\ pc = [p \in Procs |-> "idle"]
    /\ req = [p \in Procs |-> NoReq]
    /\ response = NoResponse
    /\ storage = NothingStored

\* The rows as stored and the other way round.
RollupRowOrders ==
    {[i \in OrderIds |-> i], [i \in OrderIds |-> Len(orders) + 1 - i]}

\* p1 serves the cancellation of the oldest and of the latest order, p2 the
\* analytics.
RollupNext ==
    \/ Deliver
    \/ \E orderId \in {1, Len(orders)} \cap OrderIds :
         UpdateStatusFind("p1", "r1", orderId, "CANCELED")
    \/ UpdateStatusWrite("p1")
    \/ \E rowOrder \in RollupRowOrders, tz \in ServerTimeZones :
         GetRestaurantAnalytics("p2", "r1", tz, rowOrder)

RollupSpec == RollupInit /\ [][RollupNext]_vars

\* ------------------------- getRestaurantAnalytics (from three queries)
\* The three promises of Promise.all, each resolved by a query of its own.
AnalyticsQueries == {"popularItems", "peakTimes", "orderStats"}

\* prisma.order.aggregate({ where: { restaurantId, status: { not: "CANCELED" } },
\* _count: { id: true }, _sum: { totalCents: true } }), _sum ?? 0
orderStats(restaurantId, rowOrder) ==
    LET rows == findManyOrders(restaurantId, rowOrder)
    IN  [count |-> Len(rows), sum |-> SumSeq([i \in 1..Len(rows) |-> rows[i].totalCents])]

\* What a query of the three finds in the store at the moment it runs.
AnalyticsQueryResult(q, args, rowOrder) ==
    CASE q = "popularItems" ->
            popularItems(findManyOrderItems(args.restaurantId, rowOrder), args.limit)
      [] q = "peakTimes" -> peakTimes(findManyOrders(args.restaurantId, rowOrder), args.tz)
      [] q = "orderStats" -> orderStats(args.restaurantId, rowOrder)

\* getRestaurantAnalytics(restaurantId, popularItemsLimit) is called: the
\* three queries are issued, none has run.
RestaurantAnalyticsStart(p, restaurantId, limit, tz) ==
    /\ At(p, "idle")
    /\ pc' = [pc EXCEPT ![p] = "analytics_all"]
    /\ req' = [req EXCEPT ![p] =
                  [args |-> [op |-> "getRestaurantAnalytics.all", restaurantId |-> restaurantId,
                             limit |-> limit, tz |-> tz],
                   popularItems |-> <<>>, peakTimes |-> <<>>, orderStats |-> <<>>]]
    /\ UNCHANGED <<orders, response, storage>>

\* One of the queries runs; with the last of them Promise.all resolves and
\* the snapshot is put together and returned.
RestaurantAnalyticsQuery(p, q, rowOrder) ==
    /\ At(p, "analytics_all")
    /\ req[p][q] = <<>>
    /\ LET got == [req[p] EXCEPT ![q] = <<AnalyticsQueryResult(q, req[p].args, rowOrder)>>]
       IN  IF \A other \in AnalyticsQueries : got[other] # <<>>
           THEN /\ response' = Ok("getRestaurantAnalytics.all", req[p].args, 200,
                                  <<[popularItems      |-> got.popularItems[1],
                                     peakTimes         |-> got.peakTimes[1],
                                     totalOrders       |-> got.orderStats[1].count,
                                     totalRevenueCents |-> got.orderStats[1].sum]>>)
                /\ pc' = [pc EXCEPT ![p] = "idle"]
                /\ req' = [req EXCEPT ![p] = NoReq]
           ELSE /\ req' = [req EXCEPT ![p] = got]
                /\ UNCHANGED <<pc, response>>
    /\ UNCHANGED <<orders, storage>>

\* Orders of r1 are created and canceled while p2 takes snapshots, from the
\* three queries and from the one.
SnapshotNext ==
    \/ Deliver
    \/ \E createdAt \in {169, 252}, lines \in DemoLines("r1") :
         DemoCreateOrder("r1", "PENDING", createdAt, lines)
    \/ \E orderId \in OrderIds : UpdateStatusFind("p1", "r1", orderId, "CANCELED")
    \/ UpdateStatusWrite("p1")
    \/ \E tz \in ServerTimeZones :
         RestaurantAnalyticsStart("p2", "r1", DefaultPopularItemsLimit, tz)
    \/ \E q \in AnalyticsQueries, rowOrder \in RowOrders :
         RestaurantAnalyticsQuery("p2", q, rowOrder)
    \/ \E rowOrder \in RowOrders, tz \in ServerTimeZones :
         GetRestaurantAnalytics("p2", "r1", tz, rowOrder)

SnapshotSpec == Init /\ [][SnapshotNext]_vars

\* ---------------------------------------------- financials over a lifetime
\* Orders of c1 at r1 are created, moved through their statuses and
\* re-routed while c1 and the restaurant read them.
FinancialsNext ==
    \/ Deliver
    \/ \E secondItem \in {"a2", "a4"} : PostOrders("p1", "c1", LifecycleBody("r1", secondItem))
    \/ CreateSteps("p1")
    \/ \E orderId \in OrderIds, nextStatus \in Statuses :
         UpdateStatusFind("p1", "r1", orderId, nextStatus)
    \/ UpdateStatusWrite("p1")
    \/ \E orderId \in OrderIds, input \in LifecycleRouteInputs :
         UpdateRouteFind("p2", orderId, "c1", input)
    \/ UpdateRouteWrite("p2")
    \/ ListOrdersForUser("p2", "c1")
    \/ ListOrdersForRestaurant("p2", "r1")
    \/ \E orderId \in RequestedOrderIds : GetOrderForCustomer("p2", orderId, "c1")

FinancialsSpec == Init /\ [][FinancialsNext]_vars

\* ------------------------------------------------------------ the clients
\* Variant: a READY order is offered "Mark Done" only.
ORDER_ACTIONS_READY_DONE ==
    [s \in {"PENDING", "PREPARING", "READY"} |->
        CASE s = "PENDING" ->
                <<[label |-> "Start Processing", target |-> "PREPARING", tone |-> "primary"],
                  [label |-> "Cancel Order", target |-> "CANCELED", tone |-> "danger"]>>
          [] s = "PREPARING" ->
                <<[label |-> "Mark Ready", target |-> "READY", tone |-> "primary"],
                  [label |-> "Cancel Order", target |-> "CANCELED", tone |-> "danger"]>>
          [] s = "READY" ->
                <<[label |-> "Mark Done", target |-> "COMPLETED", tone |-> "primary"]>>]
\* The merchant dashboard's ORDER_ACTIONS: the buttons of an order by its
\* status; COMPLETED and CANCELED have no entry.
ORDER_ACTIONS ==
    [s \in {"PENDING", "PREPARING", "READY"} |->
        CASE s = "PENDING" ->
                <<[label |-> "Start Processing", target |-> "PREPARING", tone |-> "primary"],
                  [label |-> "Cancel Order", target |-> "CANCELED", tone |-> "danger"]>>
          [] s = "PREPARING" ->
                <<[label |-> "Mark Ready", target |-> "READY", tone |-> "primary"],
                  [label |-> "Cancel Order", target |-> "CANCELED", tone |-> "danger"]>>
          [] s = "READY" ->
                <<[label |-> "Mark Done", target |-> "COMPLETED", tone |-> "primary"],
                  [label |-> "Cancel Order", target |-> "CANCELED", tone |-> "danger"]>>]

\* const actions = ORDER_ACTIONS[order.status] ?? []
actions(status) == IF status \in DOMAIN ORDER_ACTIONS THEN ORDER_ACTIONS[status] ELSE <<>>

\* const canUpdateRoute = order.status === "PENDING" || order.status === "PREPARING"
canUpdateRoute(status) == status = "PENDING" \/ status = "PREPARING"

\* handleOrderStatusChange(order.id, action.target): a button of the order as
\* the dashboard shows it (with the status of its last load) is pressed and
\* the PATCH reaches the status handler.
HandleOrderStatusChange(p, orderId, shown, k) ==
    /\ k \in 1..Len(actions(shown))
    /\ UpdateStatusFind(p, "r1", orderId, actions(shown)[k].target)

\* The route the customer's screen sends: all three fields.
ScreenRouteInput ==
    [routeOrigin |-> "Cary, NC", routeDestination |-> "Apex, NC", pickupEtaMin |-> 20]

\* handleUpdateRoute: the route editor is offered for the order as the
\* screen shows it and its PATCH reaches the route handler.
HandleUpdateRoute(p, orderId, shown) ==
    /\ canUpdateRoute(shown)
    /\ UpdateRouteFind(p, orderId, "c1", ScreenRouteInput)

\* An order of c1 at r1, the merchant's dashboard on p1 and the customer's
\* screen on p2; what a screen shows may be older than what is stored.
ClientsNext ==
    \/ Deliver
    \/ PostOrders("p1", "c1", LifecycleBody("r1", "a2"))
    \/ CreateSteps("p1")
    \/ \E orderId \in OrderIds, shown \in Statuses, k \in 1..2 :
         HandleOrderStatusChange("p1", orderId, shown, k)
    \/ UpdateStatusWrite("p1")
    \/ \E orderId \in OrderIds, shown \in Statuses : HandleUpdateRoute("p2", orderId, shown)
    \/ UpdateRouteWrite("p2")

ClientsSpec == Init /\ [][ClientsNext]_vars

\* ============================================================ saved trips
MaxTrips == 2       \* trips the stored list may hold

\* SavedTrip values: two share an id, one has a property set to undefined
\* and one has the property left out.
SavedTrips ==
    {[id |-> "t1", origin |-> "A", restaurant |-> "undefined"],
     [id |-> "t2", origin |-> "B", restaurant |-> "r1"],
     [id |-> "t1", origin |-> "C", restaurant |-> "absent"]}
\* ids a caller may name: those of the trips and one no trip has
RequestedTripIds == {"t1", "t2", "t9"}

\* JSON.stringify of a trip: a property whose value is undefined is left out.
stringifyTrip(t) == [t EXCEPT !.restaurant = IF @ = "undefined" THEN "absent" ELSE @]
\* JSON.stringify(next): the text of an array
JSONstringify(list) ==
    [json |-> "array", value |-> [i \in 1..Len(list) |-> stringifyTrip(list[i])] \o <<>>]

\* Values found under the key that this module did not write: the empty
\* string, the text of an object ({ foo: "bar" }, its content in value) and
\* a text that is not JSON ("not-json").
EmptyText == [json |-> "empty", value |-> <<>>]
ObjectText == [json |-> "object", value |-> <<[id |-> "foo", origin |-> "bar", restaurant |-> "absent"]>>]
InvalidText == [json |-> "invalid", value |-> <<>>]

\* Variant: the parsed value is returned whatever it is.
loadSavedTripsAnyJson(rejected, json) ==
    IF rejected THEN <<>>
    ELSE IF json.json \in {"null", "empty"} THEN <<>>
    ELSE IF json.json = "invalid" THEN <<>>
    ELSE json.value
\* loadSavedTrips, given whether getItem rejected and the value it resolved
\* with: [] when the value is falsy, when JSON.parse throws, when the parsed
\* value is not an array and when getItem rejects (the catch).
loadSavedTrips(rejected, json) ==
    IF rejected THEN <<>>
    ELSE IF json.json \in {"null", "empty"} THEN <<>>
    ELSE IF json.json = "invalid" THEN <<>>
    ELSE IF json.json # "array" THEN <<>>
    ELSE json.value

\* Variant: the trip goes to the end of the list.
saveNewTripNextAppend(trip, current) == Append(current, trip)
\* const next = [trip, ...current]
saveNewTripNext(trip, current) == <<trip>> \o current

\* Variant: only the first trip of the list is looked at.
deleteSavedTripNextFirst(id, current) ==
    IF current # <<>> /\ Head(current).id = id THEN Tail(current) ELSE current
\* const next = current.filter((t) => t.id !== id)
deleteSavedTripNext(id, current) == SelectSeq(current, LAMBDA t : t.id # id)

\* A call of the storage module settles: its promise resolves with data, or
\* rejects with the error of AsyncStorage.setItem.
Resolved(op, args, data, wrote) ==
    [op |-> op, code |-> 0, message |-> "", data |-> data, args |-> args, wrote |-> wrote]
Rejected(op, args, message) ==
    [op |-> op, code |-> 0, message |-> message, data |-> <<>>, args |-> args,
     wrote |-> FALSE]

\* What getItem gave a call: a rejection, or the value stored at that moment.
GetItem(rejected) == [rejected |-> rejected, json |-> storage]

\* loadSavedTrips() called on its own.
LoadSavedTrips(p, rejected) ==
    /\ At(p, "idle")
    /\ response' = Resolved("loadSavedTrips",
                            [op |-> "loadSavedTrips", getItem |-> GetItem(rejected)],
                            <<loadSavedTrips(rejected, storage)>>, FALSE)
    /\ UNCHANGED <<orders, pc, req, storage>>

\* saveNewTrip up to its second await: current is loaded, next is built.
SaveNewTripLoad(p, trip, rejected) ==
    /\ At(p, "idle")
    /\ Len(loadSavedTrips(rejected, storage)) < MaxTrips
    /\ pc' = [pc EXCEPT ![p] = "trips_setItem"]
    /\ req' = [req EXCEPT ![p] =
                  [args |-> [op |-> "saveNewTrip", trip |-> trip,
                             getItem |-> GetItem(rejected)],
                   next |-> saveNewTripNext(trip, loadSavedTrips(rejected, storage))]]
    /\ UNCHANGED <<orders, response, storage>>

\* deleteSavedTrip up to its second await.
DeleteSavedTripLoad(p, id, rejected) ==
    /\ At(p, "idle")
    /\ pc' = [pc EXCEPT ![p] = "trips_setItem"]
    /\ req' = [req EXCEPT ![p] =
                  [args |-> [op |-> "deleteSavedTrip", id |-> id,
                             getItem |-> GetItem(rejected)],
                   next |-> deleteSavedTripNext(id, loadSavedTrips(rejected, storage))]]
    /\ UNCHANGED <<orders, response, storage>>

\* await AsyncStorage.setItem(SAVED_TRIPS_KEY, JSON.stringify(next)): the
\* text replaces the stored value and the call resolves, or setItem rejects
\* and the call rejects with nothing written.
TripsSetItem(p, rejected) ==
    /\ At(p, "trips_setItem")
    /\ IF rejected
       THEN /\ response' = Rejected(req[p].args.op, req[p].args, "setItem rejected")
            /\ UNCHANGED storage
       ELSE /\ response' = Resolved(req[p].args.op, req[p].args, <<>>, TRUE)
            /\ storage' = JSONstringify(req[p].next)
    /\ pc' = [pc EXCEPT ![p] = "idle"]
    /\ req' = [req EXCEPT ![p] = NoReq]
    /\ UNCHANGED orders

\* The storage of a device: nothing stored, or a value left by something else.
TripsInit ==
    /\ orders = <<>>
    /\ pc = [p \in Procs |-> "idle"]
    /\ req = [p \in Procs |-> NoReq]
    /\ response = NoResponse
    /\ storage \in {NothingStored, EmptyText, ObjectText, InvalidText}

\* Calls of the storage module by two callers, each suspended at its awaits.
TripsNext ==
    \/ Deliver
    \/ \E p \in Procs, rejected \in BOOLEAN : LoadSavedTrips(p, rejected)
    \/ \E p \in Procs, trip \in SavedTrips, rejected \in BOOLEAN :
          SaveNewTripLoad(p, trip, rejected)
    \/ \E p \in Procs, id \in RequestedTripIds, rejected \in BOOLEAN :
          DeleteSavedTripLoad(p, id, rejected)
    \/ \E p \in Procs, rejected \in BOOLEAN : TripsSetItem(p, rejected)

TripsSpec == TripsInit /\ [][TripsNext]_vars

\* Two callers whose calls overlap and whose reads and writes all succeed:
\* one saves trips of id t1, the other saves the trip of id t2 or deletes it.
TripsRaceNext ==
    \/ Deliver
    \/ \E trip \in {t \in SavedTrips : t.id = "t1"} : SaveNewTripLoad("p1", trip, FALSE)
    \/ \E trip \in {t \in SavedTrips : t.id = "t2"} : SaveNewTripLoad("p2", trip, FALSE)
    \/ DeleteSavedTripLoad("p2", "t2", FALSE)
    \/ \E p \in Procs : TripsSetItem(p, FALSE)

TripsRaceSpec == TripsInit /\ [][TripsRaceNext]_vars

\* =================================================================== claims
\* The transition table as the specification states it (section 4.3).
SpecTable ==
    [s \in Statuses |->
        CASE s = "PENDING"   -> {"PREPARING", "CANCELED"}
          [] s = "PREPARING" -> {"READY", "CANCELED"}
          [] s = "READY"     -> {"COMPLETED", "CANCELED"}
          [] OTHER           -> {}]
TerminalStatuses == {"COMPLETED", "CANCELED"}

\* The order a status request names exists and belongs to the restaurant.
OwnedByRestaurant(a) ==
    a.orderId \in 1..Len(orders) /\ orders[a.orderId].restaurantId = a.restaurantId

\* Handler p starts / finishes the write of a status change in this step.
StartsStatusWrite(p) == pc[p] = "idle" /\ pc'[p] = "status_update"
FinishesStatusWrite(p) == pc[p] = "status_update" /\ pc'[p] = "idle"

\* C1: for an order owned by the restaurant with status s and a requested
\* status t # s, the handler goes on to write t and answers 200 with status t
\* stored exactly when t is in the table for s (s being the status it read);
\* otherwise it answers 400 'Invalid status transition' and the store is
\* unchanged. It never succeeds from a terminal s.
C1_Step ==
    /\ (response'.op = "updateOrderStatus" /\ ~response'.wrote) =>
          LET a == response'.args
          IN  (OwnedByRestaurant(a) /\ orders[a.orderId].status # a.nextStatus) =>
                 /\ response'.code = 400
                 /\ response'.message = "Invalid status transition"
                 /\ a.nextStatus \notin SpecTable[orders[a.orderId].status]
                 /\ orders' = orders
    /\ \A p \in Procs : StartsStatusWrite(p) =>
          LET a == req'[p].args
          IN  /\ OwnedByRestaurant(a)
              /\ orders[a.orderId].status # a.nextStatus
              /\ orders[a.orderId].status \notin TerminalStatuses
              /\ a.nextStatus \in SpecTable[orders[a.orderId].status]
              /\ req'[p].seen = orders[a.orderId].status
              /\ response' = NoResponse
              /\ orders' = orders
    /\ \A p \in Procs : FinishesStatusWrite(p) =>
          LET a == req[p].args
          IN  /\ a.nextStatus \in SpecTable[req[p].seen]
              /\ response'.op = "updateOrderStatus"
              /\ response'.args = a
              /\ response'.code = 200
              /\ Len(response'.data) = 1
              /\ response'.data[1].order.status = a.nextStatus
              /\ orders'[a.orderId].status = a.nextStatus
\* C1: every step of the status handler follows the transition table: a
\* change is accepted exactly when the table allows it, else refused with 400.
C1_TransitionTable == [][C1_Step]_vars

\* COMPLETED -> PENDING has been refused with 400.
C1_Witness ==
    /\ response.op = "updateOrderStatus"
    /\ response.code = 400
    /\ response.args.nextStatus = "PENDING"
    /\ orders[response.args.orderId].status = "COMPLETED"

\* C2: every successful status write is a table transition from the status
\* the order has at the moment of the write, which is the status the handler
\* validated.
C2_Step ==
    \A p \in Procs : FinishesStatusWrite(p) =>
        /\ orders[req[p].args.orderId].status = req[p].seen
        /\ req[p].args.nextStatus \in SpecTable[orders[req[p].args.orderId].status]
\* C2: every step that writes a status is a table transition from the status
\* stored at that moment, the read, the validation and the write being one.
C2_AtomicStatusChange == [][C2_Step]_vars

\* C3: once the stored status of an order is COMPLETED or CANCELED, no step
\* changes it.
C3_Step ==
    \A o \in 1..Len(orders) :
        orders[o].status \in TerminalStatuses =>
            /\ o \in 1..Len(orders')
            /\ orders'[o].status = orders[o].status
\* C3: no step changes the status of an order that is COMPLETED or CANCELED,
\* however the requests interleave.
C3_TerminalAbsorbing == [][C3_Step]_vars

\* C4: a request for the status the order already has (any of the five) is
\* answered 200 with the order as stored; nothing is written and no handler
\* stays in flight.
C4_Step ==
    (response'.op = "updateOrderStatus" /\ ~response'.wrote) =>
        LET a == response'.args
        IN  (OwnedByRestaurant(a) /\ orders[a.orderId].status = a.nextStatus) =>
               /\ response'.code = 200
               /\ Len(response'.data) = 1
               /\ response'.data[1].order = orders[a.orderId]
               /\ orders' = orders
               /\ pc' = pc
               /\ req' = req
\* C4: every step answering a request for the current status sends the order
\* back with 200 and writes nothing.
C4_SameStatusNoOp == [][C4_Step]_vars

\* A terminal status has been requested again and the order was sent back.
C4_Witness ==
    /\ response.op = "updateOrderStatus"
    /\ response.code = 200
    /\ ~response.wrote
    /\ response.args.nextStatus = "CANCELED"
    /\ orders[response.args.orderId].status = "CANCELED"

\* C5: a status request for an order that is not stored, or that belongs to
\* another restaurant, is answered 404 'Order not found' with no order sent
\* back, whatever status it asks for; no order changes and no write starts.
C5_Step ==
    /\ response'.op = "updateOrderStatus" =>
          (~OwnedByRestaurant(response'.args) =>
              /\ response'.code = 404
              /\ response'.message = "Order not found"
              /\ response'.data = <<>>
              /\ orders' = orders
              /\ pc' = pc)
    /\ \A p \in Procs : StartsStatusWrite(p) => OwnedByRestaurant(req'[p].args)
\* C5: every step answering a status request for an unknown order or an order
\* of another restaurant answers 404 and changes nothing.
C5_NotFound == [][C5_Step]_vars

\* Another restaurant asked for the status an order of r1 already has: 404.
C5_Witness ==
    /\ response.op = "updateOrderStatus"
    /\ response.code = 404
    /\ response.args.orderId \in 1..Len(orders)
    /\ orders[response.args.orderId].restaurantId # response.args.restaurantId
    /\ orders[response.args.orderId].status = response.args.nextStatus

\* C6: the write of a status change leaves every field but status of the
\* order, its items included, and every other order as they were.
C6_Step ==
    \A p \in Procs : FinishesStatusWrite(p) =>
        /\ Len(orders') = Len(orders)
        /\ \A o \in 1..Len(orders) :
              /\ DOMAIN orders'[o] = DOMAIN orders[o]
              /\ \A f \in DOMAIN orders[o] :
                    (o = req[p].args.orderId /\ f = "status")
                        \/ orders'[o][f] = orders[o][f]
\* C6: every step that writes a status change alters the status of that one
\* order and nothing else.
C6_OnlyStatusChanges == [][C6_Step]_vars

\* A status change has been written while another order with another status
\* is stored.
C6_Witness ==
    /\ response.op = "updateOrderStatus"
    /\ response.wrote
    /\ Len(orders) = 2
    /\ \E o \in 1..Len(orders) :
          /\ o # response.args.orderId
          /\ orders[o].status # response.args.nextStatus
          /\ orders[o].pickupEtaMin # orders[response.args.orderId].pickupEtaMin

\* round(subtotal x 0.0825) as the specification states it: the nearest cent,
\* a half cent upward.
ClaimTax(subtotal) == (subtotal * 825 + 5000) \div 10000

\* The sum over the lines of stored menu price x quantity.
CanonicalSubtotal(lines) ==
    SumSeq([i \in 1..Len(lines) |->
               MenuItemRows[lines[i].menuItemId].priceCents * lines[i].quantity])

\* C7: the order a successful createOrder persists has totalCents =
\* subtotal + round(subtotal x 0.0825), subtotal being the sum over the
\* requested lines of stored price x quantity; each item row carries the
\* stored price, whatever price the client put on the lines.
C7_TotalFromStoredPrices ==
    (response.op = "createOrder" /\ response.code = 201) =>
        LET lines == response.args.body.items
            o == orders[response.data[1].order.id]
            subtotal == CanonicalSubtotal(lines)
        IN  /\ response.data[1].order = o
            /\ o.totalCents = subtotal + ClaimTax(subtotal)
            /\ Len(o.items) = Len(lines)
            /\ \A i \in 1..Len(lines) :
                  /\ o.items[i].menuItemId = lines[i].menuItemId
                  /\ o.items[i].quantity = lines[i].quantity
                  /\ o.items[i].priceCents = MenuItemRows[lines[i].menuItemId].priceCents

\* Two lines that carried a client-side price have been persisted, the tax
\* having been rounded upward.
C7_Witness ==
    /\ response.op = "createOrder"
    /\ response.code = 201
    /\ Len(response.args.body.items) = 2
    /\ "priceCents" \in DOMAIN response.args.body.items[1]
    /\ response.args.body.items[1].priceCents # orders[1].items[1].priceCents
    /\ (CanonicalSubtotal(response.args.body.items) * 825) % 10000 >= 5000

\* total = subtotal + round(subtotal x 0.0825) over the items of an order
ClaimTotal(items) ==
    LET subtotal == SumSeq([i \in 1..Len(items) |-> items[i].priceCents * items[i].quantity])
    IN  subtotal + ClaimTax(subtotal)

\* C8: every stored order has totalCents = subtotal + round(subtotal x 0.0825)
\* over its items, the orders of the seed included, in every reachable state.
C8_TotalInvariant ==
    \A o \in 1..Len(orders) : orders[o].totalCents = ClaimTotal(orders[o].items)

ReadOps == {"listOrdersForUser", "listOrdersForRestaurant", "getOrderForCustomer"}

\* Every order a read sends back is a stored order with at least one item
\* and a total that agrees with its items.
C9_ReadsSeeWholeOrders ==
    response.op \in ReadOps =>
        \A k \in 1..Len(response.data) :
            LET o == response.data[k].order
            IN  /\ Len(o.items) >= 1
                /\ o.totalCents = ClaimTotal(o.items)
                /\ o.id \in 1..Len(orders)
                /\ orders[o.id] = o

\* The store changes only by the commit of a creation, which adds one order
\* with all the lines of its request; a creation that fails adds nothing.
C9_Step ==
    /\ orders' # orders =>
          \E p \in Procs :
              /\ pc[p] = "create_persist"
              /\ pc'[p] = "idle"
              /\ response'.op = "createOrder"
              /\ response'.code = 201
              /\ Len(orders') = Len(orders) + 1
              /\ SubSeq(orders', 1, Len(orders)) = orders
              /\ Len(orders'[Len(orders')].items) = Len(req[p].args.input.items)
              /\ Len(orders'[Len(orders')].items) >= 1
              /\ orders'[Len(orders')].totalCents = ClaimTotal(orders'[Len(orders')].items)
    /\ (response'.op = "createOrder" /\ response'.code # 201) => orders' = orders

ClaimRestaurantOk(restaurantId) ==
    restaurantId \in RestaurantIds /\ RestaurantRows[restaurantId].isActive
ClaimLineOk(restaurantId, line) ==
    /\ line.menuItemId \in MenuItemIds
    /\ MenuItemRows[line.menuItemId].restaurantId = restaurantId
    /\ MenuItemRows[line.menuItemId].isAvailable

\* C10: createOrder succeeds only for an active restaurant and lines that all
\* name available items of it; a missing or inactive restaurant gives 404,
\* else a line naming a missing, unavailable or foreign item gives 400; when
\* it does not succeed, no order and no item is persisted.
C10_CreatePreconditions ==
    response.op = "createOrder" =>
        LET body == response.args.body
        IN  /\ response.code = 201 =>
                  /\ ClaimRestaurantOk(body.restaurantId)
                  /\ \A i \in 1..Len(body.items) :
                        ClaimLineOk(body.restaurantId, body.items[i])
            /\ ~ClaimRestaurantOk(body.restaurantId) =>
                  /\ response.code = 404
                  /\ response.message = "Restaurant not found"
            /\ (/\ ClaimRestaurantOk(body.restaurantId)
                /\ \E i \in 1..Len(body.items) :
                      ~ClaimLineOk(body.restaurantId, body.items[i])) =>
                  /\ response.code = 400
                  /\ response.message = "Some menu items are unavailable"
            /\ response.code # 201 =>
                  /\ orders = <<>>
                  /\ \A p \in Procs : req[p] = NoReq

\* A request to r1 with a line naming an item of r2 has been refused with 400.
C10_Witness ==
    /\ response.op = "createOrder"
    /\ response.code = 400
    /\ response.args.body.restaurantId = "r1"
    /\ \E i \in 1..Len(response.args.body.items) :
          response.args.body.items[i].menuItemId = "b1"
    /\ orders = <<>>

\* ---------------------------------------------------------------- C11
\* Some line of the request names an item that findMany does not return for
\* the restaurant: unknown, unavailable or of another restaurant.
HasUnavailable(input) ==
    \E i \in 1..Len(input.items) :
        input.items[i].menuItemId \notin findMenuItems(RequestedIds(input), input.restaurantId)

DuplicateAlongsideMissing(input) == HasDuplicate(input.items) /\ HasUnavailable(input)

\* C11 as stated: a request of an active restaurant that repeats an item
\* alongside a missing or unavailable one passes the comparison of the
\* lengths and goes on to the persistence of the order.
C11_Step ==
    \A p \in Procs :
        (pc[p] = "create_menu" /\ pc'[p] # "create_menu"
            /\ DuplicateAlongsideMissing(req[p].args.input)) => pc'[p] = "create_persist"
C11_DuplicatePassesCheck == [][C11_Step]_vars

\* C11, amended: findMany returns a stored item once however often it is
\* requested, so a request that repeats an item never passes the comparison
\* of the lengths: it is answered 404 for a missing or inactive restaurant,
\* else 400, also when every item it names is available, it never reaches
\* the persistence of the order, and nothing is stored.
C11_DuplicateAlwaysRefused ==
    /\ \A p \in Procs : pc[p] = "create_persist" => ~HasDuplicate(req[p].args.input.items)
    /\ (response.op = "createOrder" /\ HasDuplicate(response.args.input.items)) =>
          /\ response.code = IF ActiveRestaurant(response.args.input.restaurantId)
                             THEN 400 ELSE 404
          /\ orders = <<>>

\* A request of three lines to r1, one item twice and one item unknown, has
\* been refused with 400.
C11_Witness ==
    /\ response.op = "createOrder"
    /\ response.code = 400
    /\ response.args.input.restaurantId = "r1"
    /\ Len(response.args.input.items) = 3
    /\ response.args.input.items[1].menuItemId = "a1"
    /\ response.args.input.items[2].menuItemId = "a1"
    /\ response.args.input.items[3].menuItemId = "m0"
    /\ orders = <<>>

\* ---------------------------------------------------------------- C12
\* The order the request names is stored and belongs to the customer.
OwnedByCustomer(a) == Found(a.orderId) /\ orders[a.orderId].customerId = a.customerId

EditableStatuses == {"PENDING", "PREPARING"}

\* updateOrderRoute answers without having written.
RefusesRoute == response.op = "none" /\ response'.op = "updateOrderRoute" /\ ~response'.wrote
StartsRouteWrite(p) == pc[p] # "route_update" /\ pc'[p] = "route_update"
FinishesRouteWrite(p) == pc[p] = "route_update" /\ pc'[p] # "route_update"

C12_Step ==
    /\ RefusesRoute =>
          LET a == response'.args
          IN  /\ ~OwnedByCustomer(a) =>
                    /\ response'.code = 404
                    /\ response'.message = "Order not found"
                    /\ orders' = orders
              /\ (OwnedByCustomer(a) /\ orders[a.orderId].status \notin EditableStatuses) =>
                    /\ response'.code = 400
                    /\ response'.message = orders[a.orderId].status
                    /\ orders' = orders
    /\ \A p \in Procs : StartsRouteWrite(p) =>
          LET a == req'[p].args
          IN  /\ OwnedByCustomer(a)
              /\ orders[a.orderId].status \in EditableStatuses
              /\ req'[p].seen = orders[a.orderId].status
    /\ \A p \in Procs : FinishesRouteWrite(p) =>
          /\ req[p].seen \in EditableStatuses
          /\ response'.code = 200
\* C12: updateOrderRoute on an order of the customer goes on to its write only
\* when the status it reads is PENDING or PREPARING; for READY, COMPLETED and
\* CANCELED it answers 400 naming that status and changes nothing; an order
\* that is not stored or belongs to another customer gives 404, whatever its
\* status and whatever the input.
C12_RouteGatedByStatus == [][C12_Step]_vars

\* A request with all three fields for a READY order of the customer has
\* been refused with 400 naming READY.
C12_Witness ==
    /\ response.op = "updateOrderRoute"
    /\ response.code = 400
    /\ response.message = "READY"
    /\ DOMAIN response.args.input = RouteFields
    /\ response.args.input.pickupEtaMin > 0
    /\ OwnedByCustomer(response.args)

\* ---------------------------------------------------------------- C13
\* A body with some of the three fields, each holding a value the route
\* accepts for it.
SuppliesSomeFields(body) ==
    /\ DOMAIN body # {}
    /\ DOMAIN body \subseteq RouteFields
    /\ "pickupEtaMin" \in DOMAIN body => body.pickupEtaMin > 0

C13_Step ==
    /\ (response.op = "none" /\ response'.op = "patchOrderRoute") =>
          LET a == response'.args
          IN  ~(/\ OwnedByCustomer(a)
                /\ orders[a.orderId].status \in EditableStatuses
                /\ SuppliesSomeFields(a.body))
    /\ \A p \in Procs : FinishesRouteWrite(p) =>
          LET a == req[p].args
          IN  /\ \A f \in DOMAIN orders[a.orderId] :
                    orders'[a.orderId][f] =
                        IF f \in DOMAIN a.input THEN a.input[f] ELSE orders[a.orderId][f]
              /\ \A id \in OrderIds \ {a.orderId} : orders'[id] = orders[id]
              /\ Len(orders') = Len(orders)
\* C13: PATCH /orders/:orderId/route with any non-empty subset of routeOrigin,
\* routeDestination and pickupEtaMin on an editable order of the customer is
\* not refused, and its write gives exactly the supplied fields the supplied
\* values, every other field of the order and every other order staying as
\* they were.
C13_PartialRouteUpdate == [][C13_Step]_vars

\* ---------------------------------------------------------------- C14
C14_Step ==
    /\ RefusesRoute =>
          LET a == response'.args
          IN  (OwnedByCustomer(a) /\ orders[a.orderId].status \in EditableStatuses) =>
                 /\ response'.code = 400
                 /\ orders' = orders
                 /\ \/ DOMAIN a.input \cap RouteFields = {}
                    \/ "pickupEtaMin" \in DOMAIN a.input /\ a.input.pickupEtaMin <= 0
    /\ \A p \in Procs : StartsRouteWrite(p) =>
          LET a == req'[p].args
          IN  /\ DOMAIN a.input \cap RouteFields # {}
              /\ "pickupEtaMin" \in DOMAIN a.input => a.input.pickupEtaMin > 0
              /\ orders' = orders
\* C14: updateOrderRoute on an editable order of the customer answers 400 and
\* writes nothing when no route field is supplied, and when pickupEtaMin is
\* supplied and not positive, whatever else is supplied; it goes on to its
\* write for no such input.
C14_RouteInputRefused == [][C14_Step]_vars

\* A request with a routeOrigin, a routeDestination and pickupEtaMin 0 for an
\* editable order of the customer has been refused with 400.
C14_Witness ==
    /\ response.op = "updateOrderRoute"
    /\ response.code = 400
    /\ response.message = "pickupEtaMin must be a positive number"
    /\ DOMAIN response.args.input = RouteFields
    /\ response.args.input.pickupEtaMin = 0
    /\ OwnedByCustomer(response.args)
    /\ orders[response.args.orderId].status \in EditableStatuses

\* ------------------------------------------------------- C15 .. C20
\* The orders of a restaurant that are not canceled, in the present store.
LiveOrderIds(restaurantId) ==
    {id \in OrderIds : orders[id].restaurantId = restaurantId /\ orders[id].status # "CANCELED"}

\* The sum of f over the set S.
RECURSIVE SumOver(_, _)
SumOver(S, f) ==
    IF S = {} THEN 0 ELSE LET x == CHOOSE y \in S : TRUE IN f[x] + SumOver(S \ {x}, f)

TotalCentsOf(S) == SumOver(S, [id \in S |-> orders[id].totalCents])

\* num / den rounded to the nearest integer, a half upward.
ClaimRound(num, den) ==
    LET q == num \div den IN IF 2 * (num - q * den) >= den THEN q + 1 ELSE q

\* The lines <<order, index>> of the live orders, and those of one item.
LiveLines(restaurantId) ==
    UNION {{<<id, i>> : i \in 1..Len(orders[id].items)} : id \in LiveOrderIds(restaurantId)}
LineOf(l) == orders[l[1]].items[l[2]]
ItemLines(restaurantId, m) == {l \in LiveLines(restaurantId) : LineOf(l).menuItemId = m}
OrderedItems(restaurantId) == {LineOf(l).menuItemId : l \in LiveLines(restaurantId)}
QuantityOf(restaurantId, m) ==
    SumOver(ItemLines(restaurantId, m), [l \in ItemLines(restaurantId, m) |-> LineOf(l).quantity])
RevenueOf(restaurantId, m) ==
    SumOver(ItemLines(restaurantId, m),
            [l \in ItemLines(restaurantId, m) |-> LineOf(l).priceCents * LineOf(l).quantity])

\* C15: the totals of an analytics snapshot are those of the restaurant's
\* orders that are not canceled when it is taken: their number, the sum of
\* their totalCents (0 for none) and the rounded average (0 for none);
\* canceled orders and orders of other restaurants do not count.
C15_AggregateTotals ==
    response.op = "getRestaurantAnalytics" =>
        LET a == response.data[1]
            S == LiveOrderIds(response.args.restaurantId)
        IN  /\ a.totalOrders = Cardinality(S)
            /\ a.totalRevenueCents = TotalCentsOf(S)
            /\ a.averageOrderCostCents =
                  IF Cardinality(S) > 0 THEN ClaimRound(TotalCentsOf(S), Cardinality(S)) ELSE 0

\* A snapshot of r1 counts one order while a canceled order of r1 and no
\* other order is stored.
C15_Witness ==
    /\ response.op = "getRestaurantAnalytics"
    /\ response.args.restaurantId = "r1"
    /\ response.data[1].totalOrders = 1
    /\ response.data[1].totalRevenueCents > 0
    /\ Len(orders) = 2
    /\ \A id \in OrderIds : orders[id].restaurantId = "r1"
    /\ \E id \in OrderIds : orders[id].status = "CANCELED"

C17_PopularItemsRanked ==
    response.op = "getPopularItems" =>
        LET list == response.data[1]
            r == response.args.restaurantId
            returned == {list[i].menuItemId : i \in 1..Len(list)}
        IN  /\ Len(list) = Min(response.args.limit, Cardinality(OrderedItems(r)))
            /\ Cardinality(returned) = Len(list)
            /\ returned \subseteq OrderedItems(r)
            /\ \A i, j \in 1..Len(list) : i < j => list[i].totalQuantity >= list[j].totalQuantity
            /\ \A m \in OrderedItems(r) \ returned : \A i \in 1..Len(list) :
                  QuantityOf(r, m) <= list[i].totalQuantity

\* With limit 1 the item returned brought less revenue than one left out.
C17_Witness ==
    /\ response.op = "getPopularItems"
    /\ response.args.limit = 1
    /\ Len(response.data[1]) = 1
    /\ \E m \in OrderedItems(response.args.restaurantId) :
          /\ m # response.data[1][1].menuItemId
          /\ RevenueOf(response.args.restaurantId, m) > response.data[1][1].revenueCents

DatesOf(list) == {list[i].date : i \in 1..Len(list)}

\* A list of buckets is in strictly ascending order of its dates and holds
\* the greatest keys of K, at most limit of them.
MostRecent(list, K, limit) ==
    /\ \A i, j \in 1..Len(list) : i < j => list[i].date < list[j].date
    /\ Len(list) = Min(limit, Cardinality(K))
    /\ DatesOf(list) \subseteq K
    /\ \A k \in K \ DatesOf(list) : \A i \in 1..Len(list) : k < list[i].date

\* C19: ordersByDay and ordersByWeek are in strictly ascending order of
\* their date keys, one entry a key, and hold the most recent keys only: at
\* most 30 days and 12 weeks, the greatest ones when there are more.
C19_RollupsSortedAndTruncated ==
    response.op = "getRestaurantAnalytics" =>
        LET a == response.data[1]
            S == LiveOrderIds(response.args.restaurantId)
        IN  /\ MostRecent(a.ordersByDay, {toISODate(orders[id].createdAt) : id \in S}, 30)
            /\ MostRecent(a.ordersByWeek,
                          {weekKey(orders[id].createdAt, response.args.tz) : id \in S}, 12)

\* Orders of more than 30 days are stored and the snapshot holds 30 days.
C19_Witness ==
    /\ response.op = "getRestaurantAnalytics"
    /\ Len(response.data[1].ordersByDay) = 30
    /\ Cardinality({toISODate(orders[id].createdAt) :
                        id \in LiveOrderIds(response.args.restaurantId)}) > 30

\* The calendar day of an order and the Sunday on or before it.
ClaimDay == [id \in OrderIds |-> orders[id].createdAt \div 24]
ClaimWeek == [id \in OrderIds |-> ClaimDay[id] - (ClaimDay[id] % 7)]

\* The buckets of a list are those of the live orders S grouped by key:
\* every order in exactly one, none empty, each with its count, its summed
\* totalCents and the rounded average.
BucketsOf(list, S, key) ==
    /\ \A id \in S : Cardinality({i \in 1..Len(list) : list[i].date = key[id]}) = 1
    /\ \A i \in 1..Len(list) :
          LET members == {id \in S : key[id] = list[i].date}
          IN  /\ list[i].orderCount = Cardinality(members)
              /\ list[i].orderCount > 0
              /\ list[i].totalRevenueCents = TotalCentsOf(members)
              /\ list[i].averageOrderValueCents =
                    ClaimRound(TotalCentsOf(members), Cardinality(members))

\* C20: every live order of the restaurant is counted in exactly one daily
\* bucket, that of its calendar day, and in exactly one weekly bucket, that
\* of the Sunday on or before that day; every bucket holds the number of its
\* orders, the sum of their totalCents and the rounded average, and no
\* bucket is empty.
C20_RollupBuckets ==
    response.op = "getRestaurantAnalytics" =>
        LET a == response.data[1]
            S == LiveOrderIds(response.args.restaurantId)
        IN  /\ BucketsOf(a.ordersByDay, S, ClaimDay)
            /\ BucketsOf(a.ordersByWeek, S, ClaimWeek)

\* ------------------------------------------------------------ saved trips
\* The list a stored value holds: that of the text of an array, none otherwise.
ClaimStoredList(json) == IF json.json = "array" THEN json.value ELSE <<>>
\* A trip as it is stored: a property that is undefined is not stored.
ClaimStoredTrip(t) ==
    IF t.restaurant = "undefined" THEN [t EXCEPT !.restaurant = "absent"] ELSE t
\* A call resolves in this step, having read the value that is still stored.
ResolvesOnWhatItRead(op) ==
    /\ response.op = "none"
    /\ response'.op = op
    /\ response'.wrote
    /\ ~response'.args.getItem.rejected
    /\ response'.args.getItem.json = storage

C21_Step ==
    ResolvesOnWhatItRead("saveNewTrip") =>
        /\ storage'.json = "array"
        /\ storage'.value =
              <<ClaimStoredTrip(response'.args.trip)>> \o ClaimStoredList(storage)
\* C21: when saveNewTrip completes, the stored list is the trip followed by
\* the list that was stored before, elements and order unchanged, and the
\* one-element list when nothing was stored.
C21_SaveNewTripPrepends == [][C21_Step]_vars

\* A trip has been saved in front of a list that already held one.
C21_Witness ==
    /\ response.op = "saveNewTrip"
    /\ response.wrote
    /\ ~response.args.getItem.rejected
    /\ ClaimStoredList(response.args.getItem.json) # <<>>
    /\ storage.value = <<ClaimStoredTrip(response.args.trip)>>
                          \o response.args.getItem.json.value

C22_Step ==
    ResolvesOnWhatItRead("deleteSavedTrip") =>
        LET before == ClaimStoredList(storage)
            id == response'.args.id
            kept == {i \in 1..Len(before) : before[i].id # id}
        IN  /\ storage'.json = "array"
            /\ Len(storage'.value) = Cardinality(kept)
            /\ \A i \in kept :
                  storage'.value[Cardinality({j \in kept : j <= i})] = before[i]
            /\ kept = 1..Len(before) => storage'.value = before
            /\ \A i \in 1..Len(storage'.value) : storage'.value[i].id # id
\* C22: deleteSavedTrip writes the stored list back without the trips of the
\* given id and with the others in their order: the same list when no trip
\* has the id, the empty list when nothing is stored, and a list that a
\* second deletion of the id leaves as it is.
C22_DeleteRemovesById == [][C22_Step]_vars

\* A trip has been deleted from a list that keeps another one.
C22_Witness ==
    /\ response.op = "deleteSavedTrip"
    /\ response.wrote
    /\ ~response.args.getItem.rejected
    /\ Len(ClaimStoredList(response.args.getItem.json)) = 2
    /\ Len(storage.value) = 1
    /\ storage.value[1].id # response.args.id

\* C23: loadSavedTrips never fails: it resolves with the stored array when
\* the stored value is the text of an array and with the empty list in every
\* other case, a rejected getItem included, and writes nothing.
C23_LoadNeverFails ==
    response.op = "loadSavedTrips" =>
        /\ response.message = ""
        /\ ~response.wrote
        /\ storage = response.args.getItem.json
        /\ response.data[1] =
              IF ~response.args.getItem.rejected /\ storage.json = "array"
              THEN storage.value ELSE <<>>

\* getItem rejected while a list was stored, and the empty list came back.
C23_Witness ==
    /\ response.op = "loadSavedTrips"
    /\ response.args.getItem.rejected
    /\ storage.json = "array"
    /\ storage.value # <<>>
    /\ response.data[1] = <<>>

\* The trips a stored value holds.
ClaimStoredTrips(json) ==
    {ClaimStoredList(json)[i] : i \in 1..Len(ClaimStoredList(json))}
\* A saveNewTrip or a deleteSavedTrip resolves in this step.
ResolvesTripCall ==
    /\ response.op = "none"
    /\ response'.op \in {"saveNewTrip", "deleteSavedTrip"}
    /\ response'.wrote

C29_Step ==
    ResolvesTripCall =>
        IF response'.op = "saveNewTrip"
        THEN ClaimStoredTrips(storage') =
                 ClaimStoredTrips(storage) \cup {ClaimStoredTrip(response'.args.trip)}
        ELSE ClaimStoredTrips(storage') =
                 {t \in ClaimStoredTrips(storage) : t.id # response'.args.id}
\* C29: no update is lost when two saveNewTrip calls, or a saveNewTrip and
\* a deleteSavedTrip of another id, overlap: each call that completes leaves
\* the trips stored by then together with the one it saves, or without the
\* ones it deletes, as if the calls had run one after the other.
C29_NoLostTripUpdate == [][C29_Step]_vars

C30_Step ==
    (ResolvesTripCall /\ response'.args.getItem.json = storage) =>
        \A t \in ClaimStoredTrips(storage) :
            \/ t \in ClaimStoredTrips(storage')
            \/ response'.op = "deleteSavedTrip" /\ t.id = response'.args.id
\* C30: a saveNewTrip that completes discards no trip that was stored
\* before it, and a deleteSavedTrip removes no trip but those of its id,
\* also when getItem rejects during the call and setItem succeeds.
C30_NoTripDiscarded == [][C30_Step]_vars

\* ------------------------------------------- route update and status change
C24_Step ==
    \A p \in Procs :
        FinishesRouteWrite(p) =>
            /\ orders[req[p].args.orderId].status = req[p].seen
            /\ orders[req[p].args.orderId].status \notin {"READY", "COMPLETED", "CANCELED"}
\* C24: with updateOrderRoute and updateOrderStatusForRestaurant running at
\* once on an order, no route field is written while the stored status is
\* READY, COMPLETED or CANCELED: at the write the order still has the status
\* that updateOrderRoute validated.
C24_RouteWriteSeesValidatedStatus == [][C24_Step]_vars

\* ------------------------------------------------ financials of every read
\* The operations that send orders back.
OrderOps == ReadOps \cup {"createOrder", "updateOrderStatus", "updateOrderRoute"}
\* The sum over the item rows of price x quantity.
ClaimSubtotal(items) == SumOver(1..Len(items), [i \in 1..Len(items) |->
                                      items[i].priceCents * items[i].quantity])

C25_Step ==
    /\ \A id \in 1..Len(orders) :
          /\ orders'[id].items = orders[id].items
          /\ orders'[id].totalCents = orders[id].totalCents
    /\ (response'.op \in OrderOps /\ response'.code \in {200, 201}) =>
          \A k \in 1..Len(response'.data) :
              LET d == response'.data[k]
                  o == orders'[d.order.id]
              IN  /\ d.order = o
                  /\ d.subtotalCents = ClaimSubtotal(o.items)
                  /\ d.taxCents = ClaimTax(d.subtotalCents)
                  /\ d.subtotalCents + d.taxCents = o.totalCents
                  /\ d.taxCents >= 0
\* C25: every read of an order createOrder made, and every order a status
\* or route update sends back, carries the subtotalCents and taxCents that
\* createOrder returned: both are fixed by the item rows and totalCents,
\* which no update changes, they add up to totalCents and the tax is not
\* negative.
C25_FinancialsStable == [][C25_Step]_vars

\* An order that has left PENDING and has been re-routed is read with a tax
\* that was rounded upward.
C25_Witness ==
    /\ response.op \in ReadOps
    /\ response.data # <<>>
    /\ response.data[1].order.status = "READY"
    /\ response.data[1].order.pickupEtaMin = 20
    /\ response.data[1].subtotalCents = 1099 + 2 * 399
    /\ response.data[1].taxCents = 157

\* ------------------------------------------------- repeated items refused
\* An order holds two item rows of the same menu item.
ClaimRepeatsItem(o) ==
    \E i, j \in 1..Len(o.items) : i # j /\ o.items[i].menuItemId = o.items[j].menuItemId

C26_Step ==
    /\ (response.op = "none" /\ response'.op = "createOrder"
           /\ HasDuplicate(response'.args.body.items)) =>
          /\ response'.code >= 400
          /\ ~response'.wrote
          /\ orders' = orders
          /\ ActiveRestaurant(response'.args.body.restaurantId) =>
                /\ response'.code = 400
                /\ response'.message = "Some menu items are unavailable"
    /\ \A id \in 1..Len(orders') : ~ClaimRepeatsItem(orders'[id])
\* C26: a createOrder request that names a menu item on two or more lines
\* is always refused and persists nothing; at an active restaurant it is
\* refused with 400 "Some menu items are unavailable", also when every item
\* it names is available there. So no order that createOrder persisted
\* holds two items of the same menuItemId.
C26_RepeatedItemRefused == [][C26_Step]_vars

\* A request for a1 twice (and nothing else that is unavailable) at the
\* active restaurant r1 has been refused with 400.
C26_Witness ==
    /\ response.op = "createOrder"
    /\ response.code = 400
    /\ response.args.body.restaurantId = "r1"
    /\ HasDuplicate(response.args.body.items)
    /\ \A i \in 1..Len(response.args.body.items) :
          /\ response.args.body.items[i].menuItemId \in {"a1", "a2"}
    /\ orders = <<>>

\* ------------------------------------------------- consistent snapshots
\* The sum of a field over the entries of a list.
ClaimSum(list, f) == SumOver(1..Len(list), [i \in 1..Len(list) |-> list[i][f]])

\* C27: every snapshot getRestaurantAnalytics returns agrees with itself:
\* the orderCount of its hourly entries adds up to its totalOrders and,
\* where the hours carry revenue, their revenueCents to its
\* totalRevenueCents, also while orders are created and canceled.
C27_SnapshotConsistent ==
    /\ response.op = "getRestaurantAnalytics.all" =>
          /\ ClaimSum(response.data[1].peakTimes, "orderCount") = response.data[1].totalOrders
          /\ ClaimSum(response.data[1].peakTimes, "revenueCents") =
                response.data[1].totalRevenueCents
    /\ response.op = "getRestaurantAnalytics" =>
          ClaimSum(response.data[1].peakOrderingHours, "orderCount") =
              response.data[1].totalOrders

\* --------------------------------------------- clients and server agree
\* The targets the dashboard offers for a status.
ClaimOffered(status) == {actions(status)[k].target : k \in 1..Len(actions(status))}

C28_Step ==
    /\ \A s \in Statuses : ClaimOffered(s) = STATUS_TRANSITIONS[s]
    /\ ClaimOffered("COMPLETED") = {} /\ ClaimOffered("CANCELED") = {}
    /\ \A s \in Statuses : canUpdateRoute(s) <=> s \in ROUTE_UPDATEABLE_STATUSES
    /\ (response.op = "none" /\ response'.op = "updateOrderStatus"
           /\ Found(response'.args.orderId)
           /\ response'.args.nextStatus \in ClaimOffered(orders[response'.args.orderId].status))
          => response'.code # 400
    /\ \A p \in Procs :
          (pc[p] = "idle" /\ pc'[p] = "status_update") =>
              req'[p].args.nextStatus \in ClaimOffered(orders[req'[p].args.orderId].status)
    /\ (response.op = "none" /\ response'.op = "updateOrderRoute"
           /\ Found(response'.args.orderId)
           /\ canUpdateRoute(orders[response'.args.orderId].status))
          => response'.code # 400
\* C28: the targets ORDER_ACTIONS offers for a status are those of the
\* server's STATUS_TRANSITIONS (none for COMPLETED and CANCELED) and
\* canUpdateRoute is true for the statuses of ROUTE_UPDATEABLE_STATUSES; so
\* an action on an order that is stored with the status shown is never
\* refused as an invalid transition, nor a route update for its status.
C28_ClientsAgreeWithServer == [][C28_Step]_vars

\* "Mark Done", pressed on an order shown and stored as READY, has been
\* carried out.
C28_Witness ==
    /\ response.op = "updateOrderStatus"
    /\ response.wrote
    /\ response.args.nextStatus = "COMPLETED"
    /\ orders[response.args.orderId].status = "COMPLETED"

====
